---- MODULE Spec2Model ----
(***************************************************************************)
(* Bank-statement extraction, normalization and merge of                   *)
(* hardeex/company-house-api (src/extract_pdf_to_csv).                     *)
(*                                                                         *)
(* Text is modelled as a sequence of one-character strings, so that the    *)
(* regular expressions, substring tests, splits and numeric conversions of *)
(* the Python code are computed on the characters as the code computes     *)
(* them.  A parsed float is an integer number of 1/10000 units.            *)
(***************************************************************************)
EXTENDS Integers, Sequences, FiniteSets, TLC

VARIABLES
  bank,              \* the institution identified for the document
  pc,                \* the position of the program
  pageNo,            \* the page being scanned
  scanned,           \* the number of lines scanned in the document
  lines,             \* the lines of the current page scanned so far
  pageBase,          \* len(transactions) when the current page began
  current,           \* the open record of the scanner
  transactions,      \* the raw records of the document
  pdf_name,          \* the file name handed to the normalizer
  normalized,        \* the canonical records of the document
  files,             \* the files of the directory still to be processed, in order
  docs,              \* the files processed so far, in order
  all_transactions,  \* process_statements' list of all canonical records
  df,                \* the ledger: the index labels of the DataFrame's rows, in order
  temp_files,        \* the temporary raster images on disk
  ocr,               \* how extract_text_with_ocr ended for the current page
  pages,             \* per page handled: its text, how OCR ended, records added
  module,            \* the script whose fetch_companies is called
  retries,           \* fetch_companies' retry counter
  responses,         \* the responses to the HTTP requests of the top-level call
  result,            \* what the top-level call of fetch_companies gave its caller
  location,          \* main's position in LOCATIONS + [None]
  page_count,        \* main's page counter for the location
  all_data,          \* the number of companies in main's all_data
  searched           \* the locations main has fetched for, with the fetches made

scanVars == <<bank, pageNo, scanned, lines, pageBase, current, transactions,
              pdf_name, normalized>>

mergeVars == <<files, docs, all_transactions, df>>

ocrVars == <<temp_files, ocr, pages>>

apiVars == <<module, retries, responses, result, location, page_count, all_data,
             searched>>

vars == <<pc, scanVars, mergeVars, ocrVars, apiVars>>

(***************************************************************************)
(* Bounds of the model.                                                    *)
(***************************************************************************)
\* lines scanned per document
MaxLines == 3
\* pages per document
MaxPages == 2
\* .pdf files in the input directory
MaxDocs == 3

(***************************************************************************)
(* Character classes and string primitives.                                *)
(***************************************************************************)
\* \d
Digit == {"0","1","2","3","4","5","6","7","8","9"}

\* [A-Z]
UpperCase == {"A","B","C","D","E","F","G","H","I","J","K","L","M",
              "N","O","P","Q","R","S","T","U","V","W","X","Y","Z"}

\* [a-z]
LowerCase == {"a","b","c","d","e","f","g","h","i","j","k","l","m",
              "n","o","p","q","r","s","t","u","v","w","x","y","z"}

\* [A-Za-z]
Letter == UpperCase \cup LowerCase

\* \s
Space == {" ", "\t"}

\* \w, for the word boundary \b
WordChar == Letter \cup Digit \cup {"_"}

SetMin(S) == CHOOSE x \in S : \A y \in S : x <= y

SetMax(S) == CHOOSE x \in S : \A y \in S : x >= y

\* str.strip()
Strip(s) ==
  LET keep == {i \in 1..Len(s) : s[i] \notin Space}
  IN IF keep = {} THEN <<>> ELSE SubSeq(s, SetMin(keep), SetMax(keep))

\* s[:n]
Prefix(s, n) == SubSeq(s, 1, IF Len(s) < n THEN Len(s) ELSE n)

\* s[i:] matched against a literal
StartsAt(s, i, pat) ==
  /\ i + Len(pat) - 1 <= Len(s)
  /\ SubSeq(s, i, i + Len(pat) - 1) = pat

\* pat in s
Contains(s, pat) == \E i \in 1..(Len(s) + 1) : StartsAt(s, i, pat)

\* the first index >= i of s whose character is outside class, Len(s)+1 if none
RunEnd(s, i, class) ==
  LET out == {j \in i..Len(s) : s[j] \notin class}
  IN IF out = {} THEN Len(s) + 1 ELSE SetMin(out)

\* str.lower()
LowerOf ==
  [c \in UpperCase |->
     CASE c = "A" -> "a" [] c = "B" -> "b" [] c = "C" -> "c" [] c = "D" -> "d"
       [] c = "E" -> "e" [] c = "F" -> "f" [] c = "G" -> "g" [] c = "H" -> "h"
       [] c = "I" -> "i" [] c = "J" -> "j" [] c = "K" -> "k" [] c = "L" -> "l"
       [] c = "M" -> "m" [] c = "N" -> "n" [] c = "O" -> "o" [] c = "P" -> "p"
       [] c = "Q" -> "q" [] c = "R" -> "r" [] c = "S" -> "s" [] c = "T" -> "t"
       [] c = "U" -> "u" [] c = "V" -> "v" [] c = "W" -> "w" [] c = "X" -> "x"
       [] c = "Y" -> "y" [] c = "Z" -> "z"]

ToLower(s) == [i \in 1..Len(s) |-> IF s[i] \in UpperCase THEN LowerOf[s[i]] ELSE s[i]]

\* str.upper()
ToUpper(s) ==
  [i \in 1..Len(s) |->
     IF s[i] \in LowerCase
     THEN CHOOSE u \in UpperCase : LowerOf[u] = s[i]
     ELSE s[i]]

\* str.replace(pat, rep), leftmost non-overlapping occurrences
RECURSIVE ReplaceFrom(_, _, _, _)
ReplaceFrom(s, i, pat, rep) ==
  IF i > Len(s) THEN <<>>
  ELSE IF StartsAt(s, i, pat)
       THEN rep \o ReplaceFrom(s, i + Len(pat), pat, rep)
       ELSE <<s[i]>> \o ReplaceFrom(s, i + 1, pat, rep)

Replace(s, pat, rep) == ReplaceFrom(s, 1, pat, rep)

\* str.split(sep) for a one-character separator
RECURSIVE SplitFrom(_, _, _)
SplitFrom(s, i, sep) ==
  LET hits == {j \in i..Len(s) : s[j] = sep}
  IN IF hits = {} THEN <<SubSeq(s, i, Len(s))>>
     ELSE <<SubSeq(s, i, SetMin(hits) - 1)>> \o SplitFrom(s, SetMin(hits) + 1, sep)

Split(s, sep) == SplitFrom(s, 1, sep)

(***************************************************************************)
(* The regular expressions of the line scanners.                           *)
(***************************************************************************)
\* date_regex r"^\d{2}\s[A-Za-z]{3}" (Virgin Money, Nationwide, Barclays)
MatchDayMonth(s) ==
  /\ Len(s) >= 6
  /\ s[1] \in Digit /\ s[2] \in Digit
  /\ s[3] \in Space
  /\ s[4] \in Letter /\ s[5] \in Letter /\ s[6] \in Letter

\* date_regex r"^\d{2}\s+[A-Za-z]{3}\s+\d{2}\b" (TSB)
MatchDayMonthYear(s) ==
  /\ Len(s) >= 3
  /\ s[1] \in Digit /\ s[2] \in Digit
  /\ s[3] \in Space
  /\ LET m == RunEnd(s, 3, Space)
     IN /\ m + 3 <= Len(s)
        /\ s[m] \in Letter /\ s[m+1] \in Letter /\ s[m+2] \in Letter
        /\ s[m+3] \in Space
        /\ LET y == RunEnd(s, m + 3, Space)
           IN /\ y + 1 <= Len(s)
              /\ s[y] \in Digit /\ s[y+1] \in Digit
              /\ (y + 2 <= Len(s) => s[y+2] \notin WordChar)

\* the end of a match of r"[\d,]+\.\d{2}|\d+\.\d{2}" that starts at i, 0 if none:
\* the greedy run of [\d,] must be followed by "." and two digits (the second
\* alternative matches nothing the first does not)
AmountEnd(s, i) ==
  IF s[i] \notin (Digit \cup {","}) THEN 0
  ELSE LET e == RunEnd(s, i, Digit \cup {","})
       IN IF /\ e + 2 <= Len(s)
             /\ s[e] = "."
             /\ s[e+1] \in Digit /\ s[e+2] \in Digit
          THEN e + 2 ELSE 0

\* re.findall(r"[\d,]+\.\d{2}|\d+\.\d{2}", line)
RECURSIVE FindAmountsFrom(_, _)
FindAmountsFrom(s, i) ==
  IF i > Len(s) THEN <<>>
  ELSE IF AmountEnd(s, i) > 0
       THEN <<SubSeq(s, i, AmountEnd(s, i))>> \o FindAmountsFrom(s, AmountEnd(s, i) + 1)
       ELSE FindAmountsFrom(s, i + 1)

FindAmounts(s) == FindAmountsFrom(s, 1)

\* re.sub(r"[\d,]+\.\d{2}|\d+\.\d{2}", "", line)
RECURSIVE RemoveAmountsFrom(_, _)
RemoveAmountsFrom(s, i) ==
  IF i > Len(s) THEN <<>>
  ELSE IF AmountEnd(s, i) > 0
       THEN RemoveAmountsFrom(s, AmountEnd(s, i) + 1)
       ELSE <<s[i]>> \o RemoveAmountsFrom(s, i + 1)

RemoveAmounts(s) == RemoveAmountsFrom(s, 1)

\* re.sub(r"^\d{2}\s[A-Za-z]{3}\s", "", desc)
RemoveDatePrefix(s) ==
  IF MatchDayMonth(s) /\ Len(s) >= 7 /\ s[7] \in Space
  THEN SubSeq(s, 8, Len(s)) ELSE s

\* the description of a continuation line: amounts removed, stripped, date prefix
\* removed, stripped
CleanDesc(line) == Strip(RemoveDatePrefix(Strip(RemoveAmounts(line))))

\* amounts[k].replace(",", "")
NoComma(s) == SelectSeq(s, LAMBDA c : c # ",")

\* re.search(r"\d+\.\d{2}\s*$", line)
EndsWithAmount(s) ==
  LET t == {i \in 1..Len(s) : s[i] \notin Space}
  IN /\ t # {}
     /\ LET e == SetMax(t)
        IN /\ e >= 4
           /\ s[e] \in Digit /\ s[e-1] \in Digit /\ s[e-2] = "." /\ s[e-3] \in Digit

(***************************************************************************)
(* Line scanners: the body of "for line in lines" of each extractor.  A    *)
(* scanner state is the open record `current` (<<>> for Python's {} or     *)
(* None, <<r>> for an open record r) and the result list `transactions`.   *)
(* `line` is the value after line.strip().                                 *)
(***************************************************************************)
\* the substrings that make extract_virginmoney_transactions skip a line
SkipVirginMoney ==
  { <<"P","r","e","v","i","o","u","s"," ","s","t","a","t","e","m","e","n","t">>,
    <<"B","a","l","a","n","c","e"," ","b","r","o","u","g","h","t"," ","f","o","r","w","a","r","d">>,
    <<"P","a","g","e">>,
    <<"V","i","r","g","i","n"," ","M","o","n","e","y">>,
    <<"S","t","a","t","e","m","e","n","t"," ","N","o">> }

\* the substrings that make extract_nationwide_transactions skip a line
SkipNationwide ==
  { <<"B","a","l","a","n","c","e"," ","f","r","o","m"," ","s","t","a","t","e","m","e","n","t">>,
    <<"Y","o","u","r"," ","F","l","e","x","P","l","u","s">>,
    <<"P","D","F","-","R","e","d","a","c","t","e","r","-","F","r","e","e">>,
    <<"P","l","e","a","s","e"," ","c","h","e","c","k"," ","y","o","u","r"," ","s","t","a","t","e","m","e","n","t">>,
    <<"I","n","t","e","r","e","s","t",","," ","R","a","t","e","s"," ","a","n","d"," ","F","e","e","s">> }

\* the substrings that make extract_barclays_transactions skip a line
SkipBarclays ==
  { <<"Y","o","u","r"," ","t","r","a","n","s","a","c","t","i","o","n","s">>,
    <<"D","a","t","e"," ","D","e","s","c","r","i","p","t","i","o","n">>,
    <<"P","a","g","e">>,
    <<"B","a","r","c","l","a","y","s"," ","B","a","n","k"," ","U","K"," ","P","L","C">> }

\* the substrings that make extract_tsb_transactions skip a line; the pound
\* sign of the table header is written "#"
SkipTSB ==
  { <<"P","D","F"," ","R","e","d","a","c","t","o","r"," ","F","r","e","e">>,
    <<"F","e","e","s"," ","E","x","p","l","a","i","n","e","d">>,
    <<"C","o","n","t","i","n","u","e","d"," ","o","n"," ","n","e","x","t"," ","p","a","g","e">>,
    <<"S","t","a","t","e","m","e","n","t"," ","n","u","m","b","e","r">>,
    <<"C","l","a","s","s","i","c"," ","P","l","u","s"," ","A","c","c","o","u","n","t">>,
    <<"Y","o","u","r"," ","T","r","a","n","s","a","c","t","i","o","n","s">>,
    <<"P","a","g","e">>,
    <<"N","o","t","i","f","i","c","a","t","i","o","n"," ","o","f"," ","f","o","r","t","h","c","o","m","i","n","g"," ","f","e","e","s">>,
    <<"M","o","n","t","h","l","y"," ","c","a","p"," ","o","n"," ","u","n","a","r","r","a","n","g","e","d"," ","o","v","e","r","d","r","a","f","t"," ","c","h","a","r","g","e","s">>,
    <<"|"," ","D","a","t","e"," ","|"," ","P","a","y","m","e","n","t"," ","t","y","p","e"," ","|"," ","D","e","t","a","i","l","s"," ","|"," ","M","o","n","e","y"," ","O","u","t"," ","(","#",")"," ","|"," ","M","o","n","e","y"," ","I","n"," ","(","#",")"," ","|"," ","B","a","l","a","n","c","e"," ","(","#",")"," ","|">> }

\* not line or any(skip in line for skip in ...)
IsFiller(line, skips) == line = <<>> \/ \E p \in skips : Contains(line, p)

\* a record opened with the rest of the date line as its description (the
\* variant the date-only seeding has to tell apart)
NewRecordWithRest(line) ==
  [date |-> Prefix(line, 6), description |-> Strip(SubSeq(line, 7, Len(line))),
   money_out |-> <<>>, money_in |-> <<>>, balance |-> <<>>]

\* {"date": line[:6], "description": "", "money_out": "", "money_in": "", "balance": ""}
NewRecord(line) ==
  [date |-> Prefix(line, 6), description |-> <<>>, money_out |-> <<>>,
   money_in |-> <<>>, balance |-> <<>>]

\* current["description"] = (current["description"] + " " + desc).strip()
JoinDesc(old, desc) == Strip(old \o <<" ">> \o desc)

\* a scanner that leaves the open record as it is (the variant of a Continue*
\* operator that the properties of the amount rules have to tell apart)
KeepRecord(cur, line) == cur

\* Virgin Money (virgin_money.py 77-92, bunmite.py 73-88): a continuation line
ContinueVirginMoney(cur, line) ==
  LET amounts == FindAmounts(line)
      desc == CleanDesc(line)
      n == Len(amounts)
      a == IF n >= 2
           THEN [cur EXCEPT !.money_out = NoComma(amounts[1]),
                            !.money_in = NoComma(amounts[2]),
                            !.balance = IF n > 2 THEN NoComma(amounts[n]) ELSE @]
           ELSE IF n = 1
           THEN IF Contains(desc, <<"C","a","r","d">>) \/ Contains(ToLower(desc), <<"M","b">>)
                THEN [cur EXCEPT !.money_out = NoComma(amounts[1])]
                ELSE [cur EXCEPT !.money_in = NoComma(amounts[1])]
           ELSE cur
      b == IF n = 2 THEN [a EXCEPT !.balance = NoComma(amounts[n])] ELSE a
  IN [b EXCEPT !.description = JoinDesc(b.description, desc)]

\* Nationwide (nationwide_extract.py 77-94): a continuation line
ContinueNationwide(cur, line) ==
  LET amounts == FindAmounts(line)
      desc == CleanDesc(line)
      n == Len(amounts)
      a == IF n >= 2
           THEN [cur EXCEPT !.money_out = NoComma(amounts[1]),
                            !.money_in = NoComma(amounts[2]),
                            !.balance = IF n > 2 THEN NoComma(amounts[n]) ELSE @]
           ELSE IF n = 1
           THEN IF \/ Contains(desc, <<"B","a","n","k"," ","c","r","e","d","i","t">>)
                   \/ Contains(desc, <<"C","a","s","h"," ","c","r","e","d","i","t">>)
                   \/ Contains(desc, <<"T","r","a","n","s","f","e","r"," ","f","r","o","m">>)
                THEN [cur EXCEPT !.money_in = NoComma(amounts[1])]
                ELSE [cur EXCEPT !.money_out = NoComma(amounts[1])]
           ELSE cur
      b == IF n = 1 /\ EndsWithAmount(line)
           THEN [a EXCEPT !.balance = NoComma(amounts[n])] ELSE a
  IN IF Contains(desc, <<"E","f","f","e","c","t","i","v","e"," ","D","a","t","e">>)
     THEN cur
     ELSE [b EXCEPT !.description = JoinDesc(b.description, desc)]

\* Barclays (convert_statements.py 116-134): a continuation line
ContinueBarclays(cur, line) ==
  LET amounts == FindAmounts(line)
      desc == CleanDesc(line)
      n == Len(amounts)
      credit == \/ Contains(desc, <<"R","e","c","e","i","v","e","d"," ","F","r","o","m">>)
                \/ Contains(desc, <<"G","i","r","o"," ","R","e","c","e","i","v","e","d">>)
      a == IF n = 0 THEN cur
           ELSE IF credit
           THEN [cur EXCEPT !.money_in = NoComma(amounts[1]),
                            !.balance = IF n > 1 THEN NoComma(amounts[n]) ELSE @]
           ELSE [cur EXCEPT !.money_out = NoComma(amounts[1]),
                            !.balance = IF n > 1 THEN NoComma(amounts[n]) ELSE @]
  IN [a EXCEPT !.description = @ \o <<" ">> \o desc]

\* TSB (tsb_extract.py 269-286 and 288-305): the cells of a line with six or more
\* "|"-separated parts, written over the open record
ParseRowTSB(cur, line) ==
  LET parts == Split(line, "|")
      cell(k) == NoComma(Strip(parts[k]))
      money(k) == SelectSeq(cell(k), LAMBDA c : c # "$")
      bal == money(6)
  IN IF Len(parts) >= 6
     THEN [cur EXCEPT !.date = Strip(parts[1]),
                      !.payment_type = Strip(parts[2]),
                      !.details = Replace(Strip(parts[3]), <<"<","b","r",">">>, <<" ">>),
                      !.money_out = money(4),
                      !.money_in = money(5),
                      !.balance = IF Contains(bal, <<"O","D">>)
                                  THEN <<"-">> \o Strip(Replace(bal, <<"O","D">>, <<>>))
                                  ELSE bal]
     ELSE cur

\* TSB (tsb_extract.py 259-266): the record a date line opens
NewRecordTSB(line) ==
  [date |-> Strip(Prefix(line, 9)), payment_type |-> <<>>, details |-> <<>>,
   money_out |-> <<>>, money_in |-> <<>>, balance |-> <<>>]

\* TSB (tsb_extract.py 287-311): a continuation line
ContinueTSB(cur, line) ==
  IF Len(Split(line, "|")) >= 6
  THEN ParseRowTSB(cur, line)
  ELSE [cur EXCEPT !.details = Strip(@ \o <<" ">> \o line)]

\* a scanner that forgets the open record at a date line (the variant of Flush
\* that the record counts have to tell apart)
DropOpen(cur, txs) == txs

\* `if current: transactions.append(current)`
Flush(cur, txs) == IF cur # <<>> THEN txs \o cur ELSE txs

\* a scanner without the skip test (the variant the frame of the filler lines
\* has to tell apart)
ScanNoSkip(cur, txs, line) ==
  IF MatchDayMonth(line)
  THEN [current |-> <<NewRecord(line)>>, transactions |-> Flush(cur, txs)]
  ELSE IF cur # <<>>
  THEN [current |-> <<ContinueVirginMoney(cur[1], line)>>, transactions |-> txs]
  ELSE [current |-> cur, transactions |-> txs]

\* one iteration of "for line in lines" of extract_virginmoney_transactions
ScanVirginMoney(cur, txs, line) ==
  IF IsFiller(line, SkipVirginMoney) THEN [current |-> cur, transactions |-> txs]
  ELSE IF MatchDayMonth(line)
  THEN [current |-> <<NewRecord(line)>>, transactions |-> Flush(cur, txs)]
  ELSE IF cur # <<>>
  THEN [current |-> <<ContinueVirginMoney(cur[1], line)>>, transactions |-> txs]
  ELSE [current |-> cur, transactions |-> txs]

\* one iteration of "for line in lines" of extract_nationwide_transactions
ScanNationwide(cur, txs, line) ==
  IF IsFiller(line, SkipNationwide) THEN [current |-> cur, transactions |-> txs]
  ELSE IF MatchDayMonth(line)
  THEN [current |-> <<NewRecord(line)>>, transactions |-> Flush(cur, txs)]
  ELSE IF cur # <<>>
  THEN [current |-> <<ContinueNationwide(cur[1], line)>>, transactions |-> txs]
  ELSE [current |-> cur, transactions |-> txs]

\* one iteration of "for line in lines" of extract_barclays_transactions
ScanBarclays(cur, txs, line) ==
  IF IsFiller(line, SkipBarclays) THEN [current |-> cur, transactions |-> txs]
  ELSE IF MatchDayMonth(line)
  THEN [current |-> <<NewRecord(line)>>, transactions |-> Flush(cur, txs)]
  ELSE IF cur # <<>>
  THEN [current |-> <<ContinueBarclays(cur[1], line)>>, transactions |-> txs]
  ELSE [current |-> cur, transactions |-> txs]

\* one iteration of "for line in lines" of tsb_extract.extract_tsb_transactions
ScanTSB(cur, txs, line) ==
  IF IsFiller(line, SkipTSB) THEN [current |-> cur, transactions |-> txs]
  ELSE IF MatchDayMonthYear(line)
  THEN [current |-> <<ParseRowTSB(NewRecordTSB(line), line)>>,
        transactions |-> Flush(cur, txs)]
  ELSE IF cur # <<>>
  THEN [current |-> <<ContinueTSB(cur[1], line)>>, transactions |-> txs]
  ELSE [current |-> cur, transactions |-> txs]

\* the institutions with a line scanner (combine_statements.py 68-79)
Banks == {"Virgin Money", "Nationwide", "Barclays", "TSB"}

\* the extractor selected for an institution
ScanLineOf(b, cur, txs, line) ==
  CASE b = "Virgin Money" -> ScanVirginMoney(cur, txs, line)
    [] b = "Nationwide" -> ScanNationwide(cur, txs, line)
    [] b = "Barclays" -> ScanBarclays(cur, txs, line)
    [] b = "TSB" -> ScanTSB(cur, txs, line)

\* an end of page that leaves the open record out (the variant the
\* unconditional append has to tell apart)
EndWithoutFlush(b, cur, txs) == txs

\* the end of a page: `if current: transactions.append(current)`; Barclays strips
\* the description of this last record first (convert_statements.py 136-138)
EndOfPage(b, cur, txs) ==
  IF cur = <<>> THEN txs
  ELSE IF b = "Barclays"
  THEN Append(txs, [cur[1] EXCEPT !.description = Strip(@)])
  ELSE Append(txs, cur[1])


(***************************************************************************)
(* Normalizers: datetime.strptime, float and the per-row body of each      *)
(* normalize_* function.                                                   *)
(***************************************************************************)
\* int() of a digit
DigitVal ==
  [c \in Digit |->
     CASE c = "0" -> 0 [] c = "1" -> 1 [] c = "2" -> 2 [] c = "3" -> 3
       [] c = "4" -> 4 [] c = "5" -> 5 [] c = "6" -> 6 [] c = "7" -> 7
       [] c = "8" -> 8 [] c = "9" -> 9]

\* int() of a string of digits
RECURSIVE NatOf(_)
NatOf(s) == IF s = <<>> THEN 0 ELSE 10 * NatOf(SubSeq(s, 1, Len(s) - 1)) + DigitVal[s[Len(s)]]

AllDigits(s) == \A i \in 1..Len(s) : s[i] \in Digit

\* float(s): [ok |-> FALSE] models ValueError; val is in 1/10000 units.  Decimal
\* notation with an optional sign is parsed (exponents, "inf", "nan" and "_"
\* do not occur in the texts of the model and count as errors)
PyFloat(s) ==
  LET t == Strip(s)
      signed == t # <<>> /\ t[1] \in {"-", "+"}
      body == IF signed THEN SubSeq(t, 2, Len(t)) ELSE t
      dots == {i \in 1..Len(body) : body[i] = "."}
      ip == IF dots = {} THEN body ELSE SubSeq(body, 1, SetMin(dots) - 1)
      fp == IF dots = {} THEN <<>> ELSE SubSeq(body, SetMin(dots) + 1, Len(body))
      frac == Prefix(fp \o <<"0","0","0","0">>, 4)
      mag == NatOf(ip) * 10000 + NatOf(frac)
  IN IF Cardinality(dots) <= 1 /\ AllDigits(ip) /\ AllDigits(fp) /\ Len(ip) + Len(fp) >= 1
     THEN [ok |-> TRUE, val |-> IF signed /\ t[1] = "-" THEN 0 - mag ELSE mag]
     ELSE [ok |-> FALSE, val |-> 0]

\* float(re.sub(r"[^\d.]", "", x)) if x else 0.0
MoneyFloat(x) ==
  IF x = <<>> THEN [ok |-> TRUE, val |-> 0]
  ELSE PyFloat(SelectSeq(x, LAMBDA c : c \in Digit \/ c = "."))

\* a conversion that reads the digits and drops the sign (the variant of
\* PlainFloat that the overdraft sign has to tell apart)
UnsignedFloat(x) == MoneyFloat(x)

\* float(x) if x else 0.0
PlainFloat(x) == IF x = <<>> THEN [ok |-> TRUE, val |-> 0] ELSE PyFloat(x)

\* %b: the month number of an abbreviated month name, 0 if none
MonthNo(m) ==
  LET l == ToLower(m)
  IN CASE l = <<"j","a","n">> -> 1 [] l = <<"f","e","b">> -> 2
       [] l = <<"m","a","r">> -> 3 [] l = <<"a","p","r">> -> 4
       [] l = <<"m","a","y">> -> 5 [] l = <<"j","u","n">> -> 6
       [] l = <<"j","u","l">> -> 7 [] l = <<"a","u","g">> -> 8
       [] l = <<"s","e","p">> -> 9 [] l = <<"o","c","t">> -> 10
       [] l = <<"n","o","v">> -> 11 [] l = <<"d","e","c">> -> 12
       [] OTHER -> 0

IsLeap(y) == (y % 4 = 0 /\ y % 100 # 0) \/ y % 400 = 0

DaysIn(m, y) ==
  IF m = 2 THEN (IF IsLeap(y) THEN 29 ELSE 28)
  ELSE IF m \in {4, 6, 9, 11} THEN 30 ELSE 31

\* datetime.strptime(s, "%d %b") (withYear FALSE, year 1900) and
\* datetime.strptime(s, "%d %b %y") (withYear TRUE): [ok |-> FALSE] models
\* ValueError.  %d is one or two digits, a blank of the format is \s+, the
\* whole string must be consumed.
Strptime(s, withYear) ==
  LET bad == [ok |-> FALSE, y |-> 0, m |-> 0, d |-> 0]
      lead == IF s # <<>> /\ s[1] = " " THEN 1 ELSE 0
      dEnd == RunEnd(s, 1 + lead, Digit)
      dTxt == SubSeq(s, 1 + lead, dEnd - 1)
      mBeg == RunEnd(s, dEnd, Space)
      mTxt == SubSeq(s, mBeg, mBeg + 2)
      yBeg == RunEnd(s, mBeg + 3, Space)
      yTxt == SubSeq(s, yBeg, Len(s))
      year == IF ~withYear THEN 1900
              ELSE IF NatOf(yTxt) < 69 THEN 2000 + NatOf(yTxt) ELSE 1900 + NatOf(yTxt)
  IN IF /\ Len(dTxt) \in (IF lead = 1 THEN {1} ELSE {1, 2})
        /\ mBeg > dEnd
        /\ mBeg + 2 <= Len(s)
        /\ MonthNo(mTxt) # 0
        /\ IF withYear
           THEN yBeg > mBeg + 3 /\ Len(yTxt) = 2 /\ AllDigits(yTxt)
           ELSE mBeg + 2 = Len(s)
        /\ NatOf(dTxt) >= 1
        /\ NatOf(dTxt) <= DaysIn(MonthNo(mTxt), year)
     THEN [ok |-> TRUE, y |-> year, m |-> MonthNo(mTxt), d |-> NatOf(dTxt)]
     ELSE bad

\* date_obj.replace(year=y): ValueError for 29 February in a year without one
ReplaceYear(dt, y) ==
  IF dt.ok /\ dt.d <= DaysIn(dt.m, y)
  THEN [dt EXCEPT !.y = y] ELSE [dt EXCEPT !.ok = FALSE]

\* strftime("%Y-%m-%d"), kept as the number YYYYMMDD: for four-digit years the
\* order of these numbers is the order of the ISO strings
IsoDate(dt) == dt.y * 10000 + dt.m * 100 + dt.d

\* re.search(r"(Jan|...|Dec)\s?\d{4}", pdf_name, re.IGNORECASE): <<>> for no
\* match, else <<group(0)>> of the leftmost match
MonthYearIn(name) ==
  LET endAt(i) ==
        IF i + 2 <= Len(name) /\ MonthNo(SubSeq(name, i, i + 2)) # 0
        THEN IF /\ i + 7 <= Len(name) /\ name[i+3] \in Space
                /\ AllDigits(SubSeq(name, i + 4, i + 7))
             THEN i + 7
             ELSE IF i + 6 <= Len(name) /\ AllDigits(SubSeq(name, i + 3, i + 6))
             THEN i + 6 ELSE 0
        ELSE 0
      hits == {i \in 1..Len(name) : endAt(i) > 0}
  IN IF hits = {} THEN <<>>
     ELSE <<SubSeq(name, SetMin(hits), endAt(SetMin(hits)))>>

\* statement_month.group(0) if statement_month else <default>
StatementMonth(name, default) ==
  IF MonthYearIn(name) = <<>> THEN default ELSE MonthYearIn(name)[1]

\* the body of normalize_virginmoney's loop for one row: <<>> when the row is
\* skipped or an exception is caught, else the canonical record
NormRowVirginMoney(row, name) ==
  LET dt == ReplaceYear(Strptime(row.date, FALSE), 2024)
      money_in == MoneyFloat(row.money_in)
      money_out == MoneyFloat(row.money_out)
      balance == MoneyFloat(row.balance)
  IN IF row.date = <<>> \/ ~dt.ok \/ ~money_in.ok \/ ~money_out.ok \/ ~balance.ok
     THEN <<>>
     ELSE << [Date |-> IsoDate(dt),
              TransactionType |-> IF money_in.val > 0 THEN "Received" ELSE "Payment",
              MoneyIn |-> money_in.val,
              MoneyOut |-> money_out.val,
              BankName |-> "Virgin Money",
              StatementMonth |-> StatementMonth(name, <<"U","n","k","n","o","w","n">>),
              Description |-> Strip(row.description),
              Balance |-> balance.val] >>

\* trans_type of normalize_nationwide (nationwide_extract.py 134-148)
TransTypeNationwide(money_in, money_out, description) ==
  IF \/ Contains(description, <<"B","a","n","k"," ","c","r","e","d","i","t">>)
     \/ Contains(description, <<"C","a","s","h"," ","c","r","e","d","i","t">>)
  THEN "Credit"
  ELSE IF Contains(description, <<"T","r","a","n","s","f","e","r"," ","t","o">>)
  THEN "Transfer Out"
  ELSE IF Contains(description, <<"T","r","a","n","s","f","e","r"," ","f","r","o","m">>)
  THEN "Transfer In"
  ELSE IF Contains(description, <<"D","i","r","e","c","t"," ","d","e","b","i","t">>)
  THEN "Direct Debit"
  ELSE IF Contains(description, <<"M","o","n","t","h","l","y"," ","A","c","c","o","u","n","t"," ","F","e","e">>)
  THEN "Fee"
  ELSE IF money_in > 0 THEN "Received"
  ELSE IF money_out > 0 THEN "Payment"
  ELSE "Unknown"

\* the body of normalize_nationwide's loop for one row
NormRowNationwide(row, name) ==
  LET year == IF Contains(name, <<"2","0","2","5">>) THEN 2025 ELSE 2024
      dt == ReplaceYear(Strptime(row.date, FALSE), year)
      money_in == MoneyFloat(row.money_in)
      money_out == MoneyFloat(row.money_out)
      balance == MoneyFloat(row.balance)
  IN IF row.date = <<>> \/ ~dt.ok \/ ~money_in.ok \/ ~money_out.ok \/ ~balance.ok
     THEN <<>>
     ELSE << [Date |-> IsoDate(dt),
              TransactionType |->
                TransTypeNationwide(money_in.val, money_out.val, Strip(row.description)),
              MoneyIn |-> money_in.val,
              MoneyOut |-> money_out.val,
              BankName |-> "Nationwide",
              StatementMonth |-> StatementMonth(name, <<"U","n","k","n","o","w","n">>),
              Description |-> Strip(row.description),
              Balance |-> balance.val] >>

\* the body of normalize_barclays's loop for one row (no Balance column)
NormRowBarclays(row, name) ==
  LET dt == ReplaceYear(Strptime(row.date, FALSE), 2025)
      money_in == MoneyFloat(row.money_in)
      money_out == MoneyFloat(row.money_out)
  IN IF ~dt.ok \/ ~money_in.ok \/ ~money_out.ok
     THEN <<>>
     ELSE << [Date |-> IsoDate(dt),
              TransactionType |-> IF money_in.val > 0 THEN "Received" ELSE "Payment",
              MoneyIn |-> money_in.val,
              MoneyOut |-> money_out.val,
              BankName |-> "Barclays",
              StatementMonth |-> StatementMonth(name, <<"A","p","r","i","l"," ","2","0","2","5">>),
              Description |-> Strip(row.description)] >>

\* a labelling by the direction of the money alone (the variant the
\* enumeration of the labels has to tell apart)
TransTypeByDirection(money_in, money_out, payment_type) ==
  IF money_in > 0 THEN "Money In" ELSE "Money Out"

\* trans_type of tsb_extract.normalize_tsb (tsb_extract.py 345-378)
TransTypeTSB(money_in, money_out, payment_type) ==
  IF money_out > 0 /\ payment_type = <<"F","A","S","T","E","R"," ","P","A","Y","M","E","N","T">>
  THEN "Payment"
  ELSE IF money_in > 0 /\ payment_type = <<"F","A","S","T","E","R"," ","P","A","Y","M","E","N","T">>
  THEN "Credit"
  ELSE IF payment_type = <<"D","I","R","E","C","T"," ","D","E","B","I","T">>
  THEN "Direct Debit"
  ELSE IF payment_type = <<"C","A","S","H"," ","D","E","P","O","S","I","T">>
  THEN "Deposit"
  ELSE IF payment_type = <<"D","I","R","E","C","T"," ","C","R","E","D","I","T">>
  THEN "Direct Credit"
  ELSE IF payment_type = <<"T","R","A","N","S","F","E","R">> /\ money_in > 0
  THEN "Transfer In"
  ELSE IF payment_type = <<"S","E","R","V","I","C","E"," ","C","H","A","R","G","E","S">>
  THEN "Fee"
  ELSE IF payment_type = <<"C","A","S","H"," ","W","I","T","H","D","R","A","W","A","L">>
  THEN "Withdrawal"
  ELSE "Unknown"

\* the body of tsb_extract.normalize_tsb's loop for one row
NormRowTSB(row, name) ==
  LET dt == ReplaceYear(Strptime(row.date, TRUE), 2024)
      money_in == PlainFloat(row.money_in)
      money_out == PlainFloat(row.money_out)
      balance == PlainFloat(row.balance)
      description == Strip(row.details)
  IN IF row.date = <<>> \/ ~dt.ok \/ ~money_in.ok \/ ~money_out.ok \/ ~balance.ok
     THEN <<>>
     ELSE IF description # <<>> \/ balance.val # 0 \/ money_in.val # 0 \/ money_out.val # 0
     THEN << [Date |-> IsoDate(dt),
              TransactionType |->
                TransTypeTSB(money_in.val, money_out.val, ToUpper(Strip(row.payment_type))),
              MoneyIn |-> money_in.val,
              MoneyOut |-> money_out.val,
              BankName |-> "TSB",
              StatementMonth |-> <<"A","p","r"," ","2","0","2","4">>,
              Description |-> description,
              Balance |-> balance.val] >>
     ELSE <<>>

\* a normalizer that keeps a row it cannot normalize as a zero-valued record
\* (the variant the dropping of rows has to tell apart)
NormRowOrZero(b, row, name) ==
  LET out == CASE b = "Virgin Money" -> NormRowVirginMoney(row, name)
               [] b = "Nationwide" -> NormRowNationwide(row, name)
               [] b = "Barclays" -> NormRowBarclays(row, name)
               [] b = "TSB" -> NormRowTSB(row, name)
  IN IF out # <<>> THEN out
     ELSE << [Date |-> 0, TransactionType |-> "Unknown", MoneyIn |-> 0, MoneyOut |-> 0,
              BankName |-> b, StatementMonth |-> <<>>, Description |-> <<>>,
              Balance |-> 0] >>

\* the normalizer selected for an institution, applied to one row
NormRowOf(b, row, name) ==
  CASE b = "Virgin Money" -> NormRowVirginMoney(row, name)
    [] b = "Nationwide" -> NormRowNationwide(row, name)
    [] b = "Barclays" -> NormRowBarclays(row, name)
    [] b = "TSB" -> NormRowTSB(row, name)

\* normalize_*(transactions, pdf_name): the rows in order, skipped rows left out
RECURSIVE Normalize(_, _, _)
Normalize(b, txs, name) ==
  IF txs = <<>> THEN <<>>
  ELSE Normalize(b, SubSeq(txs, 1, Len(txs) - 1), name) \o NormRowOf(b, txs[Len(txs)], name)


(***************************************************************************)
(* The page texts and file names the model draws its inputs from: stripped *)
(* lines of statement pages, as page.extract_text() or the OCR returns     *)
(* them, chosen to reach every branch of each scanner.                     *)
(***************************************************************************)
\* lines of a Virgin Money page
LinesVirginMoney ==
  {
    \* '04 Mar'
    <<"0","4"," ","M","a","r">>,
    \* '05 Apr Card 9.00'
    <<"0","5"," ","A","p","r"," ","C","a","r","d"," ","9",".","0","0">>,
    \* '06 May Page 2'
    <<"0","6"," ","M","a","y"," ","P","a","g","e"," ","2">>,
    \* ''
    <<>>,
    \* 'Card 12.00'
    <<"C","a","r","d"," ","1","2",".","0","0">>,
    \* 'Salary 1,250.00'
    <<"S","a","l","a","r","y"," ","1",",","2","5","0",".","0","0">>,
    \* 'Tfr 12.00 50.00'
    <<"T","f","r"," ","1","2",".","0","0"," ","5","0",".","0","0">>,
    \* 'Tfr 3.00 4.00 7.00'
    <<"T","f","r"," ","3",".","0","0"," ","4",".","0","0"," ","7",".","0","0">>,
    \* 'Mb Tfr 5.00'
    <<"M","b"," ","T","f","r"," ","5",".","0","0">>,
    \* 'Ref'
    <<"R","e","f">> }

\* lines of a Nationwide page
LinesNationwide ==
  {
    \* '04 Mar'
    <<"0","4"," ","M","a","r">>,
    \* '05 Apr'
    <<"0","5"," ","A","p","r">>,
    \* '06 May Your FlexPlus'
    <<"0","6"," ","M","a","y"," ","Y","o","u","r"," ","F","l","e","x","P","l","u","s">>,
    \* 'Effective Date 1.00 2.00'
    <<"E","f","f","e","c","t","i","v","e"," ","D","a","t","e"," ","1",".","0","0"," ","2",".","0","0">>,
    \* 'Bank credit 20.00'
    <<"B","a","n","k"," ","c","r","e","d","i","t"," ","2","0",".","0","0">>,
    \* 'Shop 10.00'
    <<"S","h","o","p"," ","1","0",".","0","0">>,
    \* '10.00 Shop'
    <<"1","0",".","0","0"," ","S","h","o","p">>,
    \* 'Tfr 1.00 2.00'
    <<"T","f","r"," ","1",".","0","0"," ","2",".","0","0">>,
    \* 'Tfr 1.00 2.00 3.00'
    <<"T","f","r"," ","1",".","0","0"," ","2",".","0","0"," ","3",".","0","0">> }

\* lines of a Barclays page
LinesBarclays ==
  {
    \* '04 Mar'
    <<"0","4"," ","M","a","r">>,
    \* '05 Apr'
    <<"0","5"," ","A","p","r">>,
    \* '06 May Page 2'
    <<"0","6"," ","M","a","y"," ","P","a","g","e"," ","2">>,
    \* 'Giro Received 5.00'
    <<"G","i","r","o"," ","R","e","c","e","i","v","e","d"," ","5",".","0","0">>,
    \* 'Shop 7.00'
    <<"S","h","o","p"," ","7",".","0","0">>,
    \* 'Giro Received 5.00 98.00'
    <<"G","i","r","o"," ","R","e","c","e","i","v","e","d"," ","5",".","0","0"," ","9","8",".","0","0">>,
    \* 'Shop 7.00 93.00'
    <<"S","h","o","p"," ","7",".","0","0"," ","9","3",".","0","0">>,
    \* 'Tfr 1.00 2.00 3.00'
    <<"T","f","r"," ","1",".","0","0"," ","2",".","0","0"," ","3",".","0","0">>,
    \* 'Ref'
    <<"R","e","f">> }

\* lines of a TSB page
LinesTSB ==
  {
    \* '04 Mar 24 | FASTER PAYMENT | debt | 100.00 |  | 519.82 OD'
    <<"0","4"," ","M","a","r"," ","2","4"," ","|"," ","F","A","S","T","E","R"," ","P","A","Y","M","E","N","T"," ","|"," ","d","e","b","t"," ","|"," ","1","0","0",".","0","0"," ","|"," "," ","|"," ","5","1","9",".","8","2"," ","O","D">>,
    \* '05 Mar 24 | CASH DEPOSIT |  |  | 580.00 | 0.18'
    <<"0","5"," ","M","a","r"," ","2","4"," ","|"," ","C","A","S","H"," ","D","E","P","O","S","I","T"," ","|"," "," ","|"," "," ","|"," ","5","8","0",".","0","0"," ","|"," ","0",".","1","8">>,
    \* '04 Mar 24 FASTER PAYMENT debt 100.00'
    <<"0","4"," ","M","a","r"," ","2","4"," ","F","A","S","T","E","R"," ","P","A","Y","M","E","N","T"," ","d","e","b","t"," ","1","0","0",".","0","0">>,
    \* '| 06 Mar 24 | DIRECT DEBIT | H3G | 19.16 |  | 188.98 OD |'
    <<"|"," ","0","6"," ","M","a","r"," ","2","4"," ","|"," ","D","I","R","E","C","T"," ","D","E","B","I","T"," ","|"," ","H","3","G"," ","|"," ","1","9",".","1","6"," ","|"," "," ","|"," ","1","8","8",".","9","8"," ","O","D"," ","|">>,
    \* '02 Apr 24 | TRANSFER | CLOSING | 9,448.44 | 9,820.88 | 52.62'
    <<"0","2"," ","A","p","r"," ","2","4"," ","|"," ","T","R","A","N","S","F","E","R"," ","|"," ","C","L","O","S","I","N","G"," ","|"," ","9",",","4","4","8",".","4","4"," ","|"," ","9",",","8","2","0",".","8","8"," ","|"," ","5","2",".","6","2">>,
    \* '06 Mar 24 Page 1'
    <<"0","6"," ","M","a","r"," ","2","4"," ","P","a","g","e"," ","1">>,
    \* 'LONDON GB'
    <<"L","O","N","D","O","N"," ","G","B">>,
    \* '5 Apr 24 | FASTER PAYMENT | Ajor |  | 2,000.00 | 1,270.95'
    <<"5"," ","A","p","r"," ","2","4"," ","|"," ","F","A","S","T","E","R"," ","P","A","Y","M","E","N","T"," ","|"," ","A","j","o","r"," ","|"," "," ","|"," ","2",",","0","0","0",".","0","0"," ","|"," ","1",",","2","7","0",".","9","5">> }

PageLines(b) ==
  CASE b = "Virgin Money" -> LinesVirginMoney
    [] b = "Nationwide" -> LinesNationwide
    [] b = "Barclays" -> LinesBarclays
    [] b = "TSB" -> LinesTSB

\* file names of statements (pdf_file)
PdfNames(b) ==
  CASE b = "Virgin Money" ->
    {
      \* 'bunmite Apr 2025.pdf'
      <<"b","u","n","m","i","t","e"," ","A","p","r"," ","2","0","2","5",".","p","d","f">>,
      \* 'bunmite.pdf'
      <<"b","u","n","m","i","t","e",".","p","d","f">> }
    [] b = "Nationwide" ->
    {
      \* 'nationwide 2025.pdf'
      <<"n","a","t","i","o","n","w","i","d","e"," ","2","0","2","5",".","p","d","f">>,
      \* 'nationwide Mar2024.pdf'
      <<"n","a","t","i","o","n","w","i","d","e"," ","M","a","r","2","0","2","4",".","p","d","f">> }
    [] b = "Barclays" ->
    {
      \* 'barclays.pdf'
      <<"b","a","r","c","l","a","y","s",".","p","d","f">>,
      \* 'barclays May 2025.pdf'
      <<"b","a","r","c","l","a","y","s"," ","M","a","y"," ","2","0","2","5",".","p","d","f">> }
    [] b = "TSB" ->
    {
      \* 'TSB_April_2025.pdf'
      <<"T","S","B","_","A","p","r","i","l","_","2","0","2","5",".","p","d","f">>,
      \* 'tsb Jun 2024.pdf'
      <<"t","s","b"," ","J","u","n"," ","2","0","2","4",".","p","d","f">> }


(***************************************************************************)
(* The batch: process_statements of combine_statements.py                  *)
(***************************************************************************)

\* the text of one page scanned from NoOpenRecord to the end of the page (the
\* state after a line is bound to r before the rest of the page is scanned)
RECURSIVE ScanFrom(_, _, _, _)
ScanFrom(b, cur, txs, rest) ==
  IF rest = <<>> THEN EndOfPage(b, cur, txs)
  ELSE CHOOSE out \in {ScanFrom(b, r.current, r.transactions, Tail(rest)) :
                         r \in {ScanLineOf(b, cur, txs, Head(rest))}} : TRUE

\* raw_data = extract_*_transactions(pdf_path) of a one-page document
ExtractPage(b, page) == ScanFrom(b, <<>>, <<>>, page)

\* the .pdf files a directory can hold, in the order of sorted(os.listdir()),
\* each with the lines of its page; opens is FALSE for a file pdfplumber
\* cannot open
DirFiles == <<
  \* 'TSB_April_2025.pdf': '04 Mar 24 | FASTER PAYMENT | debt | 100.00 |  | 519.82 OD'; '05 Mar 24 | CASH DEPOSIT |  |  | 580.00 | 0.18'
  [name |-> <<"T","S","B","_","A","p","r","i","l","_","2","0","2","5",".","p","d","f">>,
   opens |-> TRUE,
   page |-> <<<<"0","4"," ","M","a","r"," ","2","4"," ","|"," ","F","A","S","T","E","R"," ","P","A","Y","M","E","N","T"," ","|"," ","d","e","b","t"," ","|"," ","1","0","0",".","0","0"," ","|"," "," ","|"," ","5","1","9",".","8","2"," ","O","D">>,
        <<"0","5"," ","M","a","r"," ","2","4"," ","|"," ","C","A","S","H"," ","D","E","P","O","S","I","T"," ","|"," "," ","|"," "," ","|"," ","5","8","0",".","0","0"," ","|"," ","0",".","1","8">>>>],
  \* 'barclays.pdf': '04 Mar'; 'Shop 7.00'
  [name |-> <<"b","a","r","c","l","a","y","s",".","p","d","f">>,
   opens |-> TRUE,
   page |-> <<<<"0","4"," ","M","a","r">>,
        <<"S","h","o","p"," ","7",".","0","0">>>>],
  \* 'bunmite Apr 2025.pdf': '05 Apr'; 'Card 12.00'; '04 Mar'; 'Salary 1,250.00'
  [name |-> <<"b","u","n","m","i","t","e"," ","A","p","r"," ","2","0","2","5",".","p","d","f">>,
   opens |-> TRUE,
   page |-> <<<<"0","5"," ","A","p","r">>,
        <<"C","a","r","d"," ","1","2",".","0","0">>,
        <<"0","4"," ","M","a","r">>,
        <<"S","a","l","a","r","y"," ","1",",","2","5","0",".","0","0">>>>],
  \* 'bunmite.pdf': '05 Apr'; 'Card 12.00'; '04 Mar'; 'Card 12.00'
  [name |-> <<"b","u","n","m","i","t","e",".","p","d","f">>,
   opens |-> TRUE,
   page |-> <<<<"0","5"," ","A","p","r">>,
        <<"C","a","r","d"," ","1","2",".","0","0">>,
        <<"0","4"," ","M","a","r">>,
        <<"C","a","r","d"," ","1","2",".","0","0">>>>],
  \* 'nationwide Mar2024.pdf': '04 Mar'; 'Shop 10.00'; '04 Mar'; 'Shop 10.00'
  [name |-> <<"n","a","t","i","o","n","w","i","d","e"," ","M","a","r","2","0","2","4",".","p","d","f">>,
   opens |-> TRUE,
   page |-> <<<<"0","4"," ","M","a","r">>,
        <<"S","h","o","p"," ","1","0",".","0","0">>,
        <<"0","4"," ","M","a","r">>,
        <<"S","h","o","p"," ","1","0",".","0","0">>>>],
  \* 'notes.pdf': '04 Mar'; 'Shop 10.00'
  [name |-> <<"n","o","t","e","s",".","p","d","f">>,
   opens |-> TRUE,
   page |-> <<<<"0","4"," ","M","a","r">>,
        <<"S","h","o","p"," ","1","0",".","0","0">>>>],
  \* 'scan.pdf': not a readable PDF
  [name |-> <<"s","c","a","n",".","p","d","f">>,
   opens |-> FALSE,
   page |-> <<>>],
  \* 'statement.pdf': 'Nationwide'; '05 Apr'; 'Shop 10.00'
  [name |-> <<"s","t","a","t","e","m","e","n","t",".","p","d","f">>,
   opens |-> TRUE,
   page |-> <<<<"N","a","t","i","o","n","w","i","d","e">>,
        <<"0","5"," ","A","p","r">>,
        <<"S","h","o","p"," ","1","0",".","0","0">>>>],
  \* 'tsb Jun 2024.pdf': '04 Mar 24 | FASTER PAYMENT | debt | 100.00 |  | 519.82 OD'; '05 Mar 24 | CASH DEPOSIT |  |  | 580.00 | 0.18'
  [name |-> <<"t","s","b"," ","J","u","n"," ","2","0","2","4",".","p","d","f">>,
   opens |-> TRUE,
   page |-> <<<<"0","4"," ","M","a","r"," ","2","4"," ","|"," ","F","A","S","T","E","R"," ","P","A","Y","M","E","N","T"," ","|"," ","d","e","b","t"," ","|"," ","1","0","0",".","0","0"," ","|"," "," ","|"," ","5","1","9",".","8","2"," ","O","D">>,
        <<"0","5"," ","M","a","r"," ","2","4"," ","|"," ","C","A","S","H"," ","D","E","P","O","S","I","T"," ","|"," "," ","|"," "," ","|"," ","5","8","0",".","0","0"," ","|"," ","0",".","1","8">>>>],
  \* 'tsb_nationwide.pdf': '04 Mar'; 'Shop 10.00'; '04 Mar'; 'Shop 10.00'
  [name |-> <<"t","s","b","_","n","a","t","i","o","n","w","i","d","e",".","p","d","f">>,
   opens |-> TRUE,
   page |-> <<<<"0","4"," ","M","a","r">>,
        <<"S","h","o","p"," ","1","0",".","0","0">>,
        <<"0","4"," ","M","a","r">>,
        <<"S","h","o","p"," ","1","0",".","0","0">>>>] >>

\* bank_patterns of identify_bank, in the order of the dict; a pattern is the
\* list of its alternatives
bank_patterns == <<
  [bank |-> "Barclays", pattern |-> <<<<"b","a","r","c","l","a","y","s">>>>],
  [bank |-> "Virgin Money",
   pattern |-> <<<<"b","u","n","m","i","t","e">>,
                 <<"V","i","r","g","i","n"," ","M","o","n","e","y">>,
                 <<"C","l","y","d","e","s","d","a","l","e"," ","B","a","n","k">>>>],
  [bank |-> "Nationwide", pattern |-> <<<<"n","a","t","i","o","n","w","i","d","e">>>>],
  [bank |-> "TSB", pattern |-> <<<<"t","s","b">>, <<"P","S","B">>>>] >>

\* re.search(pattern, text, re.IGNORECASE)
SearchIgnoreCase(pattern, text) ==
  \E a \in 1..Len(pattern) : Contains(ToLower(text), ToLower(pattern[a]))

\* "\n".join(lines): the text extract_text() returns for a page
RECURSIVE JoinLines(_)
JoinLines(ls) ==
  IF ls = <<>> THEN <<>>
  ELSE IF Len(ls) = 1 THEN ls[1]
  ELSE ls[1] \o <<"\n">> \o JoinLines(Tail(ls))

\* the registry entries whose pattern is found in text
Matching(text) ==
  {k \in 1..Len(bank_patterns) : SearchIgnoreCase(bank_patterns[k].pattern, text)}

\* an identification that looks at the first page before the file name (the
\* variant the file-name-first order has to tell apart)
identify_by_content(pdf, filename) ==
  LET inText == IF pdf.opens THEN Matching(JoinLines(pdf.page)) ELSE {}
      inName == Matching(filename)
  IN IF inText # {} THEN bank_patterns[SetMin(inText)].bank
     ELSE IF inName # {} THEN bank_patterns[SetMin(inName)].bank
     ELSE "Unknown"

\* identify_bank(pdf_path, filename): the first bank whose pattern is found in
\* the file name; otherwise the first whose pattern is found in the text of the
\* first page; "Unknown" when neither is found or pdfplumber.open raises
identify_bank(pdf, filename) ==
  LET inName == Matching(filename)
  IN IF inName # {} THEN bank_patterns[SetMin(inName)].bank
     ELSE LET inText == IF pdf.opens THEN Matching(JoinLines(pdf.page)) ELSE {}
          IN IF inText # {} THEN bank_patterns[SetMin(inText)].bank
             ELSE "Unknown"

\* the handler of one institution: raw_data = extract_*_transactions(pdf_path)
\* and normalized = normalize_*(raw_data, pdf_file)
HandlerOf(b, f) ==
  CHOOSE h \in {[raw_data |-> raw, normalized |-> Normalize(b, raw, f.name)] :
                  raw \in {ExtractPage(b, f.page)}} : TRUE

\* a dispatch that hands a document of no known bank to the Nationwide handler
\* (the variant the empty contribution of an Unknown document has to tell
\* apart)
HandleAnyway(bank_name, f) ==
  IF bank_name \in Banks THEN HandlerOf(bank_name, f) ELSE HandlerOf("Nationwide", f)

\* the if/elif chain of process_statements: the handler of the detected bank,
\* and normalized = [] when there is none
Handle(bank_name, f) ==
  IF bank_name \in Banks THEN HandlerOf(bank_name, f)
  ELSE [raw_data |-> <<>>, normalized |-> <<>>]

\* the columns of drop_duplicates(subset=[...])
DedupKey(row) ==
  <<row.Date, row.TransactionType, row.MoneyIn, row.MoneyOut, row.BankName,
    row.Description>>

\* the arrangements of the index labels S that are ascending in Date: the
\* first label is any label of the least date, the rest an arrangement of the
\* other labels
RECURSIVE Arrange(_, _)
Arrange(rows, S) ==
  IF S = {} THEN {<<>>}
  ELSE LET least == SetMin({rows[l].Date : l \in S})
       IN UNION {{<<l>> \o p : p \in Arrange(rows, S \ {l})} :
                   l \in {k \in S : rows[k].Date = least}}

\* df.sort_values(by="Date"): kind defaults to "quicksort", which orders the
\* keys and promises nothing about rows with equal keys (numpy's introsort
\* moves equal keys past each other once a partition is longer than 16 rows),
\* so every arrangement of the index labels that is ascending in Date is a
\* possible outcome; the short frames of the model stand for frames of any
\* length
SortValues(rows) == Arrange(rows, 1..Len(rows))

\* a frame that keeps every row (the variant of DropDuplicates that
\* uniqueness has to tell apart)
KeepAll(rows, p) == p

\* df.drop_duplicates(subset=[...]) with keep="first": a label stays when no
\* earlier label of the frame has the same key
DropDuplicates(rows, p) ==
  SelectSeq(p, LAMBDA l :
    \A i \in 1..Len(p) :
      (DedupKey(rows[p[i]]) = DedupKey(rows[l]) /\ p[i] # l)
        => \E k \in 1..Len(p) : p[k] = l /\ k < i)

\* the rows of the ledger, in the order of the frame
Ledger == [i \in 1..Len(df) |-> all_transactions[df[i]]]


(***************************************************************************)
(* Extraction and normalization of one document                            *)
(* (combine_statements.process_statements 65-85 for one pdf_file).         *)
(***************************************************************************)
Init ==
  /\ bank \in Banks
  /\ pc = "scan"
  /\ pageNo = 1
  /\ scanned = 0
  /\ lines = <<>>
  /\ pageBase = 0
  /\ current = <<>>
  /\ transactions = <<>>
  /\ pdf_name = <<>>
  /\ normalized = <<>>
  /\ files = <<>>
  /\ docs = <<>>
  /\ all_transactions = <<>>
  /\ df = <<>>
  /\ temp_files = {}
  /\ ocr = "not_run"
  /\ pages = <<>>
  /\ module = "none"
  /\ retries = 0
  /\ responses = <<>>
  /\ result = "none"
  /\ location = 0
  /\ page_count = 0
  /\ all_data = 0
  /\ searched = <<>>

\* one iteration of "for line in lines"
ScanLine ==
  /\ pc = "scan"
  /\ scanned < MaxLines
  /\ \E line \in PageLines(bank) :
       LET r == ScanLineOf(bank, current, transactions, line)
       IN /\ current' = r.current
          /\ transactions' = r.transactions
          /\ lines' = Append(lines, line)
  /\ scanned' = scanned + 1
  /\ UNCHANGED <<bank, pc, pageNo, pageBase, pdf_name, normalized, mergeVars, ocrVars, apiVars>>

\* the lines of the page are exhausted: the open record is appended (a page
\* that is scanned has text, hence at least one line)
EndPage ==
  /\ pc = "scan"
  /\ lines # <<>>
  /\ transactions' = EndOfPage(bank, current, transactions)
  /\ pc' = "page_done"
  /\ UNCHANGED <<bank, pageNo, scanned, lines, pageBase, current, pdf_name, normalized, mergeVars, ocrVars, apiVars>>

\* "for page in pdf.pages" takes the next page: current = {} again
NextPage ==
  /\ pc = "page_done"
  /\ pageNo < MaxPages
  /\ pageNo' = pageNo + 1
  /\ lines' = <<>>
  /\ pageBase' = Len(transactions)
  /\ current' = <<>>
  /\ pc' = "scan"
  /\ UNCHANGED <<bank, scanned, transactions, pdf_name, normalized, mergeVars, ocrVars, apiVars>>

\* the extractor returns and normalize_*(raw_data, pdf_file) runs
NormalizeDoc ==
  /\ pc = "page_done"
  /\ \E name \in PdfNames(bank) :
       /\ pdf_name' = name
       /\ normalized' = Normalize(bank, transactions, name)
  /\ pc' = "normalized"
  /\ UNCHANGED <<bank, pageNo, scanned, lines, pageBase, current, transactions, mergeVars, ocrVars, apiVars>>

Next == ScanLine \/ EndPage \/ NextPage \/ NormalizeDoc

Spec == Init /\ [][Next]_vars

(***************************************************************************)
(* The batch (combine_statements.process_statements 55-101).               *)
(***************************************************************************)

\* the index sets of DirFiles a directory of at most MaxDocs files holds
Listings == {S \in SUBSET (1..Len(DirFiles)) : Cardinality(S) <= MaxDocs}

\* sorted(os.listdir(input_dir)): the files of the directory in order
RECURSIVE Sorted(_)
Sorted(S) == IF S = {} THEN <<>> ELSE <<SetMin(S)>> \o Sorted(S \ {SetMin(S)})

InitBatch ==
  /\ bank \in {"Unknown"}
  /\ pc = "listing"
  /\ pageNo = 1
  /\ scanned = 0
  /\ lines = <<>>
  /\ pageBase = 0
  /\ current = <<>>
  /\ transactions = <<>>
  /\ pdf_name = <<>>
  /\ normalized = <<>>
  /\ files \in {Sorted(S) : S \in Listings}
  /\ docs = <<>>
  /\ all_transactions = <<>>
  /\ df = <<>>
  /\ temp_files = {}
  /\ ocr = "not_run"
  /\ pages = <<>>
  /\ module = "none"
  /\ retries = 0
  /\ responses = <<>>
  /\ result = "none"
  /\ location = 0
  /\ page_count = 0
  /\ all_data = 0
  /\ searched = <<>>

\* one iteration of "for pdf_file in sorted(os.listdir(input_dir))"
ProcessFile ==
  /\ pc = "listing"
  /\ files # <<>>
  /\ \E f \in {DirFiles[Head(files)]} :
     \E bank_name \in {identify_bank(f, f.name)} :
       \E h \in {Handle(bank_name, f)} :
         /\ bank' = bank_name
         /\ pdf_name' = f.name
         /\ transactions' = h.raw_data
         /\ normalized' = h.normalized
         /\ all_transactions' = all_transactions \o h.normalized
  /\ docs' = Append(docs, Head(files))
  /\ files' = Tail(files)
  /\ UNCHANGED <<pc, pageNo, scanned, lines, pageBase, current, df, ocrVars, apiVars>>

\* "if all_transactions:" - the frame is built, sorted and deduplicated
Merge ==
  /\ pc = "listing"
  /\ files = <<>>
  /\ all_transactions # <<>>
  /\ \E p \in SortValues(all_transactions) :
       df' = DropDuplicates(all_transactions, p)
  /\ pc' = "merged"
  /\ UNCHANGED <<scanVars, files, docs, all_transactions, ocrVars, apiVars>>

\* "else: No transactions to save."
NoTransactions ==
  /\ pc = "listing"
  /\ files = <<>>
  /\ all_transactions = <<>>
  /\ pc' = "nothing_saved"
  /\ UNCHANGED <<scanVars, mergeVars, ocrVars, apiVars>>

NextBatch == ProcessFile \/ Merge \/ NoTransactions

SpecBatch == InitBatch /\ [][NextBatch]_vars


(***************************************************************************)
(* Properties of the line scanners.                                        *)
(***************************************************************************)

\* re.match(BANK_CONFIG[bank]["date_regex"], line)
DateRegexOf(b, line) ==
  IF b = "TSB" THEN MatchDayMonthYear(line) ELSE MatchDayMonth(line)

\* the skip list of the institution's scanner
SkipsOf(b) ==
  CASE b = "Virgin Money" -> SkipVirginMoney
    [] b = "Nationwide" -> SkipNationwide
    [] b = "Barclays" -> SkipBarclays
    [] b = "TSB" -> SkipTSB

\* the positions of the page's lines that match the date-anchor regex
AnchorsIn(b, ls) == {i \in 1..Len(ls) : DateRegexOf(b, ls[i])}

\* the positions of the lines that reach the date-anchor test, i.e. are not
\* skipped first, and match it: the lines that open a record
OpeningIn(b, ls) == {i \in AnchorsIn(b, ls) : ~IsFiller(ls[i], SkipsOf(b))}

\* the records appended for the page that has just been scanned
PageRecords == SubSeq(transactions, pageBase + 1, Len(transactions))

\* C1 as stated: at the end of a page the number of records appended for the
\* page equals the number of its lines that match the date-anchor regex.
C1_RecordsEqualAnchorMatches ==
  pc = "page_done" => Len(PageRecords) = Cardinality(AnchorsIn(bank, lines))

\* C1 amended: at the end of a page the number of records appended for the page
\* equals the number of its lines that match the date-anchor regex and contain
\* none of the institution's skip substrings; two consecutive such lines give
\* two records and the last open record is appended at the end of the page.
C1_RecordsEqualOpeningAnchors ==
  pc = "page_done" => Len(PageRecords) = Cardinality(OpeningIn(bank, lines))

\* a page with two consecutive date lines and a dated line that is skipped
C1_Witness ==
  /\ pc = "page_done"
  /\ \E i \in OpeningIn(bank, lines) : i + 1 \in OpeningIn(bank, lines)
  /\ AnchorsIn(bank, lines) # OpeningIn(bank, lines)
  /\ Len(PageRecords) = 2

\* the date a record has when the date line opens it
OpenedDate(b, line) == ScanLineOf(b, <<>>, <<>>, line).current[1].date

\* C2: at the end of a page the k-th record appended for the page is the one
\* the k-th record-opening date line opened, once each, and it still carries
\* the date that line gave it.
C2_KthRecordKeepsItsDate ==
  pc = "page_done" =>
    LET open == OpeningIn(bank, lines)
        kth(k) == CHOOSE i \in open : Cardinality({j \in open : j <= i}) = k
    IN /\ Len(PageRecords) = Cardinality(open)
       /\ \A k \in 1..Cardinality(open) :
            PageRecords[k].date = OpenedDate(bank, lines[kth(k)])

\* C3: no canonical transaction has both Money In and Money Out above zero.
C3_OneDirection ==
  pc = "normalized" =>
    \A i \in 1..Len(normalized) :
      ~(normalized[i].MoneyIn > 0 /\ normalized[i].MoneyOut > 0)


(***************************************************************************)
(* Properties of the amount rules, stated on one iteration of the scan     *)
(* loop: `current` is the open record before the line, current' after it.  *)
(***************************************************************************)

\* the step is one iteration of "for line in lines"
ScanStep == pc = "scan" /\ pc' = "scan" /\ Len(lines') = Len(lines) + 1

\* the line of that iteration
LineScanned == lines'[Len(lines')]

\* the line reaches the amount rules of the scanner b: a record is open, the
\* line is neither skipped nor a date line (nor, for Nationwide, dropped by
\* the "Effective Date" test)
Continues(b, cur, line) ==
  /\ cur # <<>>
  /\ ~IsFiller(line, SkipsOf(b))
  /\ ~DateRegexOf(b, line)
  /\ b = "Nationwide" =>
       ~Contains(CleanDesc(line), <<"E","f","f","e","c","t","i","v","e"," ","D","a","t","e">>)

\* the credit keywords of convert_statements.py 122 found in a description
CreditBarclays(desc) ==
  \/ Contains(desc, <<"R","e","c","e","i","v","e","d"," ","F","r","o","m">>)
  \/ Contains(desc, <<"G","i","r","o"," ","R","e","c","e","i","v","e","d">>)

\* C4 as stated: under Virgin Money, Nationwide and Barclays a continuation
\* line with two or more amount tokens sets money_out to the first token and
\* money_in to the second.
C4_RuleOneAllThree ==
  [][ (/\ ScanStep
       /\ bank \in {"Virgin Money", "Nationwide", "Barclays"}
       /\ Continues(bank, current, LineScanned)
       /\ Len(FindAmounts(LineScanned)) >= 2)
      => /\ current'[1].money_out = NoComma(FindAmounts(LineScanned)[1])
         /\ current'[1].money_in = NoComma(FindAmounts(LineScanned)[2]) ]_vars

\* C4 amended: under Virgin Money and Nationwide a continuation line with two
\* or more amount tokens sets money_out to the first token and money_in to the
\* second (commas removed); under Barclays such a line sets only one direction
\* field, money_in when the description has a credit keyword and money_out
\* otherwise, to the first token and leaves the other direction field alone.
C4_RuleOnePerBank ==
  [][ (/\ ScanStep
       /\ Continues(bank, current, LineScanned)
       /\ Len(FindAmounts(LineScanned)) >= 2)
      => LET first == NoComma(FindAmounts(LineScanned)[1])
             second == NoComma(FindAmounts(LineScanned)[2])
         IN /\ bank \in {"Virgin Money", "Nationwide"} =>
                 /\ current'[1].money_out = first
                 /\ current'[1].money_in = second
            /\ bank = "Barclays" =>
                 IF CreditBarclays(CleanDesc(LineScanned))
                 THEN /\ current'[1].money_in = first
                      /\ current'[1].money_out = current[1].money_out
                 ELSE /\ current'[1].money_out = first
                      /\ current'[1].money_in = current[1].money_in ]_vars

\* the last line scanned was a continuation line of an open record
LastContinued ==
  /\ pc = "scan" /\ lines # <<>> /\ current # <<>>
  /\ ~IsFiller(lines[Len(lines)], SkipsOf(bank))
  /\ ~DateRegexOf(bank, lines[Len(lines)])

\* a Virgin Money record just after a line with two tokens set both fields
C4_Witness ==
  /\ LastContinued
  /\ bank = "Virgin Money"
  /\ Len(FindAmounts(lines[Len(lines)])) = 2
  /\ current[1].money_out = <<"1","2",".","0","0">>
  /\ current[1].money_in = <<"5","0",".","0","0">>

\* C5 as stated: under rule 1 (Virgin Money, Nationwide) a continuation line
\* with three or more tokens sets the balance to the last token and a line with
\* exactly two tokens leaves the balance unchanged.
C5_BalanceOnlyFromThird ==
  [][ (/\ ScanStep
       /\ bank \in {"Virgin Money", "Nationwide"}
       /\ Continues(bank, current, LineScanned)
       /\ Len(FindAmounts(LineScanned)) >= 2)
      => LET amounts == FindAmounts(LineScanned)
         IN IF Len(amounts) > 2
            THEN current'[1].balance = NoComma(amounts[Len(amounts)])
            ELSE current'[1].balance = current[1].balance ]_vars

\* C5 amended: a continuation line with three or more tokens sets the balance
\* to the last token under all three scanners; a line with exactly two tokens
\* leaves the balance unchanged under Nationwide only, and sets it to the
\* second token under Virgin Money and under Barclays.
C5_BalancePerBank ==
  [][ (/\ ScanStep
       /\ bank \in {"Virgin Money", "Nationwide", "Barclays"}
       /\ Continues(bank, current, LineScanned)
       /\ Len(FindAmounts(LineScanned)) >= 2)
      => LET amounts == FindAmounts(LineScanned)
         IN IF Len(amounts) > 2 \/ bank # "Nationwide"
            THEN current'[1].balance = NoComma(amounts[Len(amounts)])
            ELSE current'[1].balance = current[1].balance ]_vars

\* a Virgin Money record whose balance is the second token of a two-token line
C5_Witness ==
  /\ LastContinued
  /\ bank = "Virgin Money"
  /\ Len(FindAmounts(lines[Len(lines)])) = 2
  /\ current[1].balance = NoComma(FindAmounts(lines[Len(lines)])[2])
  /\ current[1].balance # <<>>


\* the debit keywords of a scanner found in a description: the card and
\* mobile-payment markers of virgin_money.py 86
DebitKeyword(b, desc) ==
  b = "Virgin Money" /\ (Contains(desc, <<"C","a","r","d">>) \/ Contains(desc, <<"M","b">>))

\* the credit keywords of a scanner found in a description
\* (nationwide_extract.py 88, convert_statements.py 122)
CreditKeyword(b, desc) ==
  \/ b = "Nationwide" /\ \/ Contains(desc, <<"B","a","n","k"," ","c","r","e","d","i","t">>)
                         \/ Contains(desc, <<"C","a","s","h"," ","c","r","e","d","i","t">>)
                         \/ Contains(desc, <<"T","r","a","n","s","f","e","r"," ","f","r","o","m">>)
  \/ b = "Barclays" /\ CreditBarclays(desc)

\* the direction field a single token goes to without a keyword: the else
\* branch of each scanner
DefaultField(b) == IF b = "Virgin Money" THEN "money_in" ELSE "money_out"

\* the direction field rule 2 names for a description
DirectionField(b, desc) ==
  IF DebitKeyword(b, desc) THEN "money_out"
  ELSE IF CreditKeyword(b, desc) THEN "money_in"
  ELSE DefaultField(b)

\* C6: a continuation line with exactly one amount token sets exactly one of
\* money_out / money_in to that token and leaves the other unchanged: money_out
\* with a debit keyword (Card, Mb), money_in with a credit keyword, the
\* institution's default otherwise.
C6_RuleTwo ==
  [][ (/\ ScanStep
       /\ bank \in {"Virgin Money", "Nationwide", "Barclays"}
       /\ Continues(bank, current, LineScanned)
       /\ Len(FindAmounts(LineScanned)) = 1)
      => LET token == NoComma(FindAmounts(LineScanned)[1])
         IN IF DirectionField(bank, CleanDesc(LineScanned)) = "money_out"
            THEN /\ current'[1].money_out = token
                 /\ current'[1].money_in = current[1].money_in
            ELSE /\ current'[1].money_in = token
                 /\ current'[1].money_out = current[1].money_out ]_vars

\* C7 as stated: under Nationwide a single-token continuation line leaves a
\* balance that is already set as it is.
C7_BalanceSetOnce ==
  [][ (/\ ScanStep
       /\ bank = "Nationwide"
       /\ Continues(bank, current, LineScanned)
       /\ Len(FindAmounts(LineScanned)) = 1
       /\ current[1].balance # <<>>)
      => current'[1].balance = current[1].balance ]_vars

\* C7 amended: under Nationwide a single-token continuation line that ends
\* with its amount sets the balance to that token whether or not a balance is
\* already set, and one that does not end with its amount leaves the balance
\* unchanged; under Virgin Money and Barclays a single-token line never
\* changes the balance.
C7_BalanceFromEveryTrailingToken ==
  [][ (/\ ScanStep
       /\ bank \in {"Virgin Money", "Nationwide", "Barclays"}
       /\ Continues(bank, current, LineScanned)
       /\ Len(FindAmounts(LineScanned)) = 1)
      => IF bank = "Nationwide" /\ EndsWithAmount(LineScanned)
         THEN current'[1].balance = NoComma(FindAmounts(LineScanned)[1])
         ELSE current'[1].balance = current[1].balance ]_vars

\* a Nationwide record whose balance, set by one single-token line, has been
\* replaced by the token of the next single-token line
C7_Witness ==
  /\ LastContinued
  /\ bank = "Nationwide"
  /\ Len(lines) >= 3
  /\ Len(transactions) = 0
  /\ OpeningIn(bank, lines) = {Len(lines) - 2}
  /\ LET a == FindAmounts(lines[Len(lines) - 1])
         b == FindAmounts(lines[Len(lines)])
     IN /\ Len(a) = 1 /\ Len(b) = 1 /\ a # b
        /\ EndsWithAmount(lines[Len(lines) - 1])
        /\ EndsWithAmount(lines[Len(lines)])
        /\ current[1].balance = NoComma(b[1])

(***************************************************************************)
(* The overdraft marker of TSB balances.                                   *)
(***************************************************************************)

\* the line is a "|"-separated row that the TSB scanner parses
RowLine(line) == ~IsFiller(line, SkipTSB) /\ Len(Split(line, "|")) >= 6

\* the balance cell of such a row
BalanceCell(line) == Strip(Split(line, "|")[6])

\* the magnitude a balance token shows: its digits and decimal point
Magnitude(token) == MoneyFloat(token).val

\* C8: a TSB row whose balance cell carries "OD" gives a record that
\* normalizes to minus the magnitude of the cell, a row without the marker one
\* that normalizes to the magnitude itself (not negative); and the canonical
\* rows of a document are exactly the normalized records, in order.
C8_OverdraftNegative ==
  [][ /\ (/\ ScanStep
          /\ bank = "TSB"
          /\ RowLine(LineScanned)
          /\ current' # <<>>)
         => \A name \in PdfNames("TSB") :
              LET row == NormRowTSB(current'[1], name)
                  cell == BalanceCell(LineScanned)
              IN row # <<>> =>
                   IF Contains(cell, <<"O","D">>)
                   THEN row[1].Balance = 0 - Magnitude(cell) /\ row[1].Balance <= 0
                   ELSE row[1].Balance = Magnitude(cell) /\ row[1].Balance >= 0
      /\ (pc = "page_done" /\ pc' = "normalized" /\ bank = "TSB")
         => LET kept == SelectSeq(transactions, LAMBDA r : NormRowTSB(r, pdf_name') # <<>>)
            IN /\ Len(normalized') = Len(kept)
               /\ \A i \in 1..Len(kept) :
                    normalized'[i] = NormRowTSB(kept[i], pdf_name')[1] ]_vars

\* a TSB document with an overdrawn and a positive balance in its output
C8_Witness ==
  /\ pc = "normalized"
  /\ bank = "TSB"
  /\ \E i, j \in 1..Len(normalized) :
       /\ normalized[i].Balance = 0 - Magnitude(<<"5","1","9",".","8","2">>)
       /\ normalized[j].Balance = Magnitude(<<"0",".","1","8">>)
  /\ \E k \in 1..Len(lines) :
       RowLine(lines[k]) /\ Contains(BalanceCell(lines[k]), <<"O","D">>)


(***************************************************************************)
(* Properties of the merge.                                                *)
(***************************************************************************)

\* C9: after the merge no two rows of the ledger agree on (Date, Transaction
\* Type, Money In, Money Out, Bank Name, Description), and every such tuple of
\* the concatenated normalized records is in the ledger exactly once.
C9_UniqueAndComplete ==
  pc = "merged" =>
    /\ \A i, j \in 1..Len(Ledger) :
         i # j => DedupKey(Ledger[i]) # DedupKey(Ledger[j])
    /\ \A k \in 1..Len(all_transactions) :
         Cardinality({i \in 1..Len(Ledger) :
                        DedupKey(Ledger[i]) = DedupKey(all_transactions[k])}) = 1

\* a ledger of two documents that lost a duplicate of another document and
\* kept rows of different keys
C9_Witness ==
  /\ pc = "merged"
  /\ Len(docs) >= 2
  /\ Len(df) >= 2
  /\ Len(df) < Len(all_transactions)
  /\ \E k, l \in 1..Len(all_transactions) :
       /\ k # l
       /\ DedupKey(all_transactions[k]) = DedupKey(all_transactions[l])
       /\ all_transactions[k] # all_transactions[l]

\* C10: the ledger is ascending by date and rows of the same date keep the
\* order they have in the concatenation of the normalized records.
C10_AscendingAndStable ==
  pc = "merged" =>
    \A i, j \in 1..Len(df) :
      i < j => /\ Ledger[i].Date <= Ledger[j].Date
               /\ Ledger[i].Date = Ledger[j].Date => df[i] < df[j]


\* df.sort_values + df.drop_duplicates applied to a list of canonical records:
\* the ledgers (as lists of rows) the merge can leave
MergeRows(rows) ==
  {[i \in 1..Len(kept) |-> rows[kept[i]]] :
     kept \in {DropDuplicates(rows, p) : p \in SortValues(rows)}}

\* C11: the merge is idempotent: merging a merged ledger again gives that same
\* ledger, and so does merging the ledger concatenated with itself (same rows,
\* same order).
C11_MergeIdempotent ==
  pc = "merged" =>
    /\ MergeRows(Ledger) = {Ledger}
    /\ MergeRows(Ledger \o Ledger) = {Ledger}


\* two files of the directory with the same content under different names
IsCopy(i, j) ==
  /\ i # j
  /\ DirFiles[i].opens /\ DirFiles[j].opens
  /\ DirFiles[i].page = DirFiles[j].page

\* the deduplication keys of a list of canonical records, in order
KeysOf(rows) == [i \in 1..Len(rows) |-> DedupKey(rows[i])]

\* the batch was a document and an identical copy of it, and the merge has run
CopyMerged ==
  /\ pc = "merged"
  /\ Len(docs) = 2
  /\ IsCopy(docs[1], docs[2])

LastFile == DirFiles[docs[Len(docs)]]

\* C13: identify_bank decides by the file name first: when the file name matches
\* the pattern of a registered institution the result is the first such
\* institution in registry order whatever the first page holds; only when no
\* file-name pattern matches is the text of the first page matched; when
\* nothing matches or the document cannot be opened the result is Unknown.
C13_FilenameFirst ==
  docs # <<>> =>
    LET inName == Matching(LastFile.name)
        inText == Matching(JoinLines(LastFile.page))
    IN /\ inName # {} =>
            /\ bank = bank_patterns[SetMin(inName)].bank
            /\ \A k \in 1..Len(DirFiles) :
                 identify_bank(DirFiles[k], LastFile.name) = bank
       /\ (inName = {} /\ LastFile.opens /\ inText # {}) =>
            bank \in {bank_patterns[k].bank : k \in inText}
       /\ (inName = {} /\ (~LastFile.opens \/ inText = {})) => bank = "Unknown"

\* a file whose name matches the patterns of two institutions was identified as
\* the one that comes first in the registry
C13_Witness ==
  /\ docs # <<>>
  /\ Cardinality(Matching(LastFile.name)) = 2
  /\ bank = "Nationwide"


\* the file with index k of the directory is identified as no known bank
IsUnknown(k) == identify_bank(DirFiles[k], DirFiles[k].name) \notin Banks

\* the canonical records of the files ds, in order, a file of no known bank
\* giving none
RECURSIVE RecordsOf(_)
RecordsOf(ds) ==
  IF ds = <<>> THEN <<>>
  ELSE CHOOSE all \in
         {RecordsOf(SubSeq(ds, 1, Len(ds) - 1)) \o rows :
            rows \in {IF IsUnknown(ds[Len(ds)]) THEN <<>>
                      ELSE LET f == DirFiles[ds[Len(ds)]]
                               b == identify_bank(f, f.name)
                           IN Normalize(b, ExtractPage(b, f.page), f.name)}} : TRUE

\* C14: a document identified as Unknown contributes no transaction and does
\* not stop the batch: the loop ends only when no file is left, every file
\* listed after it is identified, extracted and normalized, and the records of
\* all files reach the merge.
C14_UnknownDoesNotAbort ==
  /\ all_transactions = RecordsOf(docs)
  /\ (docs # <<>> /\ IsUnknown(docs[Len(docs)])) => normalized = <<>>
  /\ pc \in {"merged", "nothing_saved"} => files = <<>>
  /\ pc = "merged" =>
       \A i \in 1..Len(all_transactions) :
         \E j \in 1..Len(df) : DedupKey(Ledger[j]) = DedupKey(all_transactions[i])

\* a file processed after an Unknown file gave its records to the merged ledger
C14_Witness ==
  /\ pc = "merged"
  /\ Len(docs) >= 2
  /\ IsUnknown(docs[Len(docs) - 1])
  /\ ~IsUnknown(docs[Len(docs)])
  /\ normalized # <<>>
  /\ \A i \in 1..Len(normalized) :
       \E j \in 1..Len(df) : Ledger[j] = normalized[i]


(***************************************************************************)
(* The text source of each page: extract_*_transactions' page loop and     *)
(* extract_text_with_ocr (virgin_money.py 40-98, nationwide_extract.py     *)
(* 40-100, tsb_extract.py 183-316).                                        *)
(***************************************************************************)

\* the institutions whose extractor has the OCR path
OcrBanks == {"Virgin Money", "Nationwide", "TSB"}

\* the texts a page of a statement of bank b can give
PageTexts(b) ==
  {DirFiles[k].page :
     k \in {i \in 1..Len(DirFiles) :
              DirFiles[i].opens /\ identify_bank(DirFiles[i], DirFiles[i].name) = b}}

\* temp_img: "temp_page.png", and for TSB the name with the file and the page
TempImg(b, name, n) ==
  IF b = "TSB" THEN <<"temp_page", name, n>> ELSE <<"temp_page">>

\* a page handling that loses the records so far when a page has no text (the
\* variant the empty contribution of a failed page has to tell apart)
ScanOrReset(b, txs, text) ==
  IF text = <<>> THEN <<>> ELSE ScanFrom(b, <<>>, txs, text)

\* "if not text: continue", otherwise the lines of the page are scanned with a
\* fresh current and the open record is appended at the end
ScanText(b, txs, text) ==
  IF text = <<>> THEN txs ELSE ScanFrom(b, <<>>, txs, text)

InitPages ==
  /\ bank \in OcrBanks
  /\ pc = "extract_text"
  /\ pageNo = 1
  /\ scanned = 0
  /\ lines = <<>>
  /\ pageBase = 0
  /\ current = <<>>
  /\ transactions = <<>>
  /\ pdf_name \in PdfNames(bank)
  /\ normalized = <<>>
  /\ files = <<>>
  /\ docs = <<>>
  /\ all_transactions = <<>>
  /\ df = <<>>
  /\ temp_files = {}
  /\ ocr = "not_run"
  /\ pages = <<>>
  /\ module = "none"
  /\ retries = 0
  /\ responses = <<>>
  /\ result = "none"
  /\ location = 0
  /\ page_count = 0
  /\ all_data = 0
  /\ searched = <<>>

\* text = page.extract_text() returns the text of the page
PrimaryText ==
  /\ pc = "extract_text"
  /\ \E text \in PageTexts(bank) : lines' = text
  /\ ocr' = "not_run"
  /\ pc' = "resolved"
  /\ UNCHANGED <<bank, pageNo, scanned, pageBase, current, transactions, pdf_name,
                 normalized, mergeVars, temp_files, pages, apiVars>>

\* page.extract_text() returns nothing: extract_text_with_ocr is called
PrimaryEmpty ==
  /\ pc = "extract_text"
  /\ lines' = <<>>
  /\ pc' = "ocr"
  /\ UNCHANGED <<bank, pageNo, scanned, pageBase, current, transactions, pdf_name,
                 normalized, mergeVars, ocrVars, apiVars>>

\* page.extract_text() raises: the except of the extractor logs and the
\* records collected so far are returned
PrimaryRaises ==
  /\ pc = "extract_text"
  /\ pc' = "returned"
  /\ UNCHANGED <<scanVars, mergeVars, ocrVars, apiVars>>

\* img = page.to_image(...); img.save(temp_img)
OcrSave ==
  /\ pc = "ocr"
  /\ temp_files' = temp_files \cup {TempImg(bank, pdf_name, pageNo)}
  /\ pc' = "ocr_saved"
  /\ UNCHANGED <<scanVars, mergeVars, ocr, pages, apiVars>>

\* page.to_image or img.save raises: nothing was written, "" is returned
OcrSaveRaises ==
  /\ pc = "ocr"
  /\ ocr' = "save_failed"
  /\ pc' = "resolved"
  /\ UNCHANGED <<scanVars, mergeVars, temp_files, pages, apiVars>>

\* text = pytesseract.image_to_string(...) returns (a text or ""), then
\* os.remove(temp_img) and return text
OcrRead ==
  /\ pc = "ocr_saved"
  /\ \E text \in PageTexts(bank) \cup {<<>>} :
       /\ lines' = text
       /\ ocr' = IF text = <<>> THEN "empty" ELSE "ok"
  /\ temp_files' = temp_files \ {TempImg(bank, pdf_name, pageNo)}
  /\ pc' = "resolved"
  /\ UNCHANGED <<bank, pageNo, scanned, pageBase, current, transactions, pdf_name,
                 normalized, mergeVars, pages, apiVars>>

\* pytesseract.image_to_string raises: control passes to the except, which
\* logs and returns "" (os.remove is not reached)
OcrRaises ==
  /\ pc = "ocr_saved"
  /\ ocr' = "raised"
  /\ pc' = "resolved"
  /\ UNCHANGED <<scanVars, mergeVars, temp_files, pages, apiVars>>

\* pytesseract.image_to_string returns a text but os.remove(temp_img) raises
\* (the file is in use or was deleted): control passes to the same except,
\* which logs and returns "" in place of the text
OcrRemoveRaises ==
  /\ pc = "ocr_saved"
  /\ lines' = <<>>
  /\ ocr' = "remove_failed"
  /\ pc' = "resolved"
  /\ UNCHANGED <<bank, pageNo, scanned, pageBase, current, transactions, pdf_name,
                 normalized, mergeVars, temp_files, pages, apiVars>>

\* the rest of the loop body for the page: skipped without text, scanned
\* otherwise
HandlePage ==
  /\ pc = "resolved"
  /\ \E txs \in {ScanText(bank, transactions, lines)} :
       /\ transactions' = txs
       /\ pages' = Append(pages, [text |-> lines, ocr |-> ocr,
                                  added |-> Len(txs) - Len(transactions)])
  /\ pc' = "next_page"
  /\ UNCHANGED <<bank, pageNo, scanned, lines, pageBase, current, pdf_name,
                 normalized, mergeVars, temp_files, ocr, apiVars>>

\* "for page in pdf.pages" takes the next page
TurnPage ==
  /\ pc = "next_page"
  /\ pageNo < MaxPages
  /\ pageNo' = pageNo + 1
  /\ lines' = <<>>
  /\ ocr' = "not_run"
  /\ pc' = "extract_text"
  /\ UNCHANGED <<bank, scanned, pageBase, current, transactions, pdf_name,
                 normalized, mergeVars, temp_files, pages, apiVars>>

\* the pages are exhausted: return transactions
ReturnTransactions ==
  /\ pc = "next_page"
  /\ pc' = "returned"
  /\ UNCHANGED <<scanVars, mergeVars, ocrVars, apiVars>>

\* process_statements takes what the extractor returned, whether it came to
\* the end of the pages or left through its except: normalized =
\* normalize_*(raw_data, pdf_file); all_transactions.extend(normalized)
ExtendAll ==
  /\ pc = "returned"
  /\ \E rows \in {Normalize(bank, transactions, pdf_name)} :
       /\ normalized' = rows
       /\ all_transactions' = all_transactions \o rows
  /\ pc' = "extended"
  /\ UNCHANGED <<bank, pageNo, scanned, lines, pageBase, current, transactions,
                 pdf_name, files, docs, df, ocrVars, apiVars>>

NextPages ==
  \/ PrimaryText \/ PrimaryEmpty \/ PrimaryRaises
  \/ OcrSave \/ OcrSaveRaises \/ OcrRead \/ OcrRaises \/ OcrRemoveRaises
  \/ HandlePage \/ TurnPage \/ ReturnTransactions \/ ExtendAll

SpecPages == InitPages /\ [][NextPages]_vars

\* extract_text_with_ocr has returned for the current page after img.save
\* wrote the raster image
OcrReturnedAfterSave ==
  pc = "resolved" /\ ocr \in {"ok", "empty", "raised"}

\* C15: whenever the OCR path has written its temporary raster image, the image
\* no longer exists when the resolver returns, on every exit path (OCR success
\* and an exception raised by the OCR call).
C15_TempImageRemoved ==
  OcrReturnedAfterSave => TempImg(bank, pdf_name, pageNo) \notin temp_files

\* primary extraction and OCR both gave no text for page k
BothFailed(k) == pages[k].text = <<>> /\ pages[k].ocr # "not_run"

\* C16: a page for which primary extraction and OCR both fail adds no
\* transaction, the page after it is still scanned (its records are appended),
\* the extractor returns its list, and a document whose pages all fail returns
\* the empty list.
C16_FailedPageSkipped ==
  /\ \A k \in 1..Len(pages) :
       BothFailed(k) =>
         /\ pages[k].added = 0
         /\ k < Len(pages) =>
              pages[k + 1].added = Len(ExtractPage(bank, pages[k + 1].text))
  /\ (pc = "resolved" /\ lines = <<>>) => ENABLED HandlePage
  /\ (pc = "returned" /\ \A k \in 1..Len(pages) : BothFailed(k)) => transactions = <<>>

\* a page failed in both sources and the page after it gave records
C16_Witness ==
  /\ pc = "returned"
  /\ Len(pages) = 2
  /\ BothFailed(1)
  /\ pages[1].ocr = "raised"
  /\ pages[2].added > 0
  /\ Len(transactions) = pages[2].added


(***************************************************************************)
(* The normalizers applied to lists of raw records (normalize_* of         *)
(* virgin_money.py, nationwide_extract.py, convert_statements.py,          *)
(* tsb_extract.py and extract_tsb_transactions.py).                        *)
(***************************************************************************)

\* raw records per document handed to a normalizer
MaxRows == 2

\* the normalizers: those of the four banks and normalize_tsb of
\* extract_tsb_transactions.py, which reads the records of the table extractor
Normalizers == Banks \cup {"TSB tables"}

\* the date tokens of raw records: the extractors keep what matches the date
\* regex, which also admits days and months that do not exist
RawDates(b) ==
  IF b \in {"TSB", "TSB tables"}
  THEN {<<"0","4"," ","M","a","r"," ","2","4">>, <<"0","5"," ","M","a","r"," ","2","3">>, <<"3","1"," ","F","e","b"," ","2","4">>}
  ELSE {<<"0","4"," ","M","a","r">>, <<"0","5"," ","A","p","r">>, <<"3","1"," ","F","e","b">>}

\* what the extractors give a raw record besides its date
RawRest(b) ==
  CASE b = "Virgin Money" \/ b = "Barclays" ->
      {[description |-> <<"C","a","r","d">>, money_out |-> <<"1","2",".","0","0">>, money_in |-> <<>>, balance |-> <<>>],
       [description |-> <<"S","a","l","a","r","y">>, money_out |-> <<>>, money_in |-> <<"1","2","5","0",".","0","0">>, balance |-> <<"1","3","0","0",".","0","0">>],
       [description |-> <<"R","e","f">>, money_out |-> <<>>, money_in |-> <<>>, balance |-> <<>>],
       [description |-> <<>>, money_out |-> <<>>, money_in |-> <<>>, balance |-> <<>>]}
    [] b = "Nationwide" ->
      {[description |-> <<"S","h","o","p">>, money_out |-> <<"1","0",".","0","0">>, money_in |-> <<>>, balance |-> <<>>],
       [description |-> <<"B","a","n","k"," ","c","r","e","d","i","t">>, money_out |-> <<>>, money_in |-> <<"2","0",".","0","0">>, balance |-> <<"3","0",".","0","0">>],
       [description |-> <<"T","r","a","n","s","f","e","r"," ","t","o"," ","A">>, money_out |-> <<"5",".","0","0">>, money_in |-> <<>>, balance |-> <<>>],
       [description |-> <<"R","e","f">>, money_out |-> <<>>, money_in |-> <<>>, balance |-> <<>>],
       [description |-> <<>>, money_out |-> <<>>, money_in |-> <<>>, balance |-> <<>>]}
    [] b = "TSB" ->
      {[payment_type |-> <<"F","A","S","T","E","R"," ","P","A","Y","M","E","N","T">>, details |-> <<"d","e","b","t">>, money_out |-> <<"1","0","0",".","0","0">>, money_in |-> <<>>, balance |-> <<"-","5","1","9",".","8","2">>],
       [payment_type |-> <<"D","I","R","E","C","T"," ","C","R","E","D","I","T">>, details |-> <<"p","a","y">>, money_out |-> <<>>, money_in |-> <<"5","0",".","0","0">>, balance |-> <<"1","0",".","0","0">>],
       [payment_type |-> <<"C","A","S","H"," ","D","E","P","O","S","I","T">>, details |-> <<>>, money_out |-> <<>>, money_in |-> <<"5","8","0",".","0","0">>, balance |-> <<"0",".","1","8">>],
       [payment_type |-> <<>>, details |-> <<>>, money_out |-> <<>>, money_in |-> <<>>, balance |-> <<>>]}
    [] b = "TSB tables" ->
      {[description |-> <<"F","A","S","T","E","R"," ","P","A","Y","M","E","N","T"," ","d","e","b","t">>, money_out |-> 1000000, money_in |-> 0],
       [description |-> <<"D","I","R","E","C","T"," ","C","R","E","D","I","T"," ","p","a","y">>, money_out |-> 0, money_in |-> 500000],
       [description |-> <<"T","R","A","N","S","F","E","R">>, money_out |-> 0, money_in |-> 0]}

\* the raw records a normalizer can be handed
RawRows(b) == {[date |-> d] @@ r : d \in RawDates(b), r \in RawRest(b)}

\* the lists of at most n raw records
RECURSIVE RawLists(_, _)
RawLists(b, n) ==
  IF n = 0 THEN {<<>>}
  ELSE {<<>>} \cup {<<r>> \o l : r \in RawRows(b), l \in RawLists(b, n - 1)}

\* first_date.strftime("%b %Y") of extract_tsb_transactions.normalize_tsb: the
\* month of the first raw record when its date parses, "July 2024" otherwise
StatementMonthTsbTable(txs) ==
  LET dt == IF txs = <<>> THEN [ok |-> FALSE] ELSE Strptime(txs[1].date, TRUE)
      abbr == CHOOSE m \in {<<"J","a","n">>, <<"F","e","b">>, <<"M","a","r">>, <<"A","p","r">>, <<"M","a","y">>, <<"J","u","n">>, <<"J","u","l">>, <<"A","u","g">>, <<"S","e","p">>, <<"O","c","t">>, <<"N","o","v">>, <<"D","e","c">>} : MonthNo(m) = dt.m
      digit(n) == CHOOSE c \in Digit : DigitVal[c] = n
  IN IF ~dt.ok THEN <<"J","u","l","y"," ","2","0","2","4">>
     ELSE abbr \o <<" ", digit(dt.y \div 1000), digit((dt.y \div 100) % 10),
                    digit((dt.y \div 10) % 10), digit(dt.y % 10)>>

\* the body of the loop of extract_tsb_transactions.normalize_tsb for one row
\* (money_in and money_out are floats already; no Balance column)
NormRowTsbTable(row, statement_month) ==
  LET dt == Strptime(row.date, TRUE)
  IN IF ~dt.ok THEN <<>>
     ELSE << [Date |-> IsoDate(dt),
              TransactionType |-> IF row.money_in > 0 THEN "Received"
                                  ELSE IF row.money_out > 0 THEN "Payment"
                                  ELSE "Other",
              MoneyIn |-> row.money_in,
              MoneyOut |-> row.money_out,
              BankName |-> "TSB",
              StatementMonth |-> statement_month,
              Description |-> Strip(row.description)] >>

\* "for row in transactions" of extract_tsb_transactions.normalize_tsb
RECURSIVE RowsTsbTable(_, _)
RowsTsbTable(txs, statement_month) ==
  IF txs = <<>> THEN <<>>
  ELSE RowsTsbTable(SubSeq(txs, 1, Len(txs) - 1), statement_month)
         \o NormRowTsbTable(txs[Len(txs)], statement_month)

\* normalized = normalize_*(raw_data, pdf_name) of the normalizer b
NormalizeBy(b, txs, name) ==
  IF b = "TSB tables" THEN RowsTsbTable(txs, StatementMonthTsbTable(txs))
  ELSE Normalize(b, txs, name)

InitNorm ==
  /\ bank \in Normalizers
  /\ pc = "raw"
  /\ pageNo = 1
  /\ scanned = 0
  /\ lines = <<>>
  /\ pageBase = 0
  /\ current = <<>>
  /\ transactions \in RawLists(bank, MaxRows)
  /\ pdf_name \in PdfNames(IF bank = "TSB tables" THEN "TSB" ELSE bank)
  /\ normalized = <<>>
  /\ files = <<>>
  /\ docs = <<>>
  /\ all_transactions = <<>>
  /\ df = <<>>
  /\ temp_files = {}
  /\ ocr = "not_run"
  /\ pages = <<>>
  /\ module = "none"
  /\ retries = 0
  /\ responses = <<>>
  /\ result = "none"
  /\ location = 0
  /\ page_count = 0
  /\ all_data = 0
  /\ searched = <<>>

\* the normalizer runs on the raw records
NormalizeRaw ==
  /\ pc = "raw"
  /\ normalized' = NormalizeBy(bank, transactions, pdf_name)
  /\ pc' = "normalized"
  /\ UNCHANGED <<bank, pageNo, scanned, lines, pageBase, current, transactions,
                 pdf_name, mergeVars, ocrVars, apiVars>>

SpecNorm == InitNorm /\ [][NormalizeRaw]_vars


\* the date token of a raw record fails to parse in the date format of b
DateFails(b, row) == ~Strptime(row.date, b \in {"TSB", "TSB tables"}).ok

\* the raw records of the document whose date token parses, in order
ParsedDateRows == SelectSeq(transactions, LAMBDA r : ~DateFails(bank, r))

C18_StatementMonthRule ==
  (pc = "normalized" /\ normalized # <<>>) =>
    LET month == normalized[1].StatementMonth
    IN /\ \A i \in 1..Len(normalized) : normalized[i].StatementMonth = month
       /\ MonthYearIn(pdf_name) # <<>> => month = MonthYearIn(pdf_name)[1]
       /\ MonthYearIn(pdf_name) = <<>> =>
            MonthNo(Prefix(month, 3)) = (normalized[1].Date \div 100) % 100


\* C19: the statement's year is substituted only where the date format has no
\* year: in a TSB document ("DD Mon YY") the canonical date of every record has
\* the year of its own date token.
C19_TsbKeepsTokenYear ==
  (/\ pc = "normalized"
   /\ bank \in {"TSB", "TSB tables"}
   /\ Len(normalized) = Len(transactions)) =>
    \A i \in 1..Len(normalized) :
      normalized[i].Date \div 10000 = Strptime(transactions[i].date, TRUE).y


\* C20 (as stated): the Transaction Type of every canonical transaction is one
\* of Received, Payment, Credit, Debit, Fee, Transfer In, Transfer Out, Direct
\* Debit, Deposit, Withdrawal, Unknown.
C20_EnumeratedLabels ==
  \A i \in 1..Len(normalized) :
    normalized[i].TransactionType \in
      {"Received", "Payment", "Credit", "Debit", "Fee", "Transfer In", "Transfer Out",
       "Direct Debit", "Deposit", "Withdrawal", "Unknown"}

\* C20 (amended): the Transaction Type of every canonical transaction is one of
\* the labels above, Direct Credit (TSB) or Other (TSB read from tables).
C20_LabelsOfTheNormalizers ==
  \A i \in 1..Len(normalized) :
    normalized[i].TransactionType \in
      {"Received", "Payment", "Credit", "Debit", "Fee", "Transfer In", "Transfer Out",
       "Direct Debit", "Deposit", "Withdrawal", "Unknown", "Direct Credit", "Other"}

\* a TSB record of payment type DIRECT CREDIT was normalized
C20_Witness ==
  /\ pc = "normalized"
  /\ \E i \in 1..Len(normalized) : normalized[i].TransactionType = "Direct Credit"


\* C21: a TSB page that is the single line "04 Mar 24 FASTER PAYMENT debt
\* 100.00" gives exactly one canonical transaction, with Money Out 100.00, Money
\* In 0.00 and Transaction Type "Payment".
C21_PipelessTsbLine ==
  (/\ pc = "normalized"
   /\ bank = "TSB"
   /\ pageNo = 1
   /\ lines = <<<<"0","4"," ","M","a","r"," ","2","4"," ","F","A","S","T","E","R"," ","P","A","Y","M","E","N","T"," ","d","e","b","t"," ","1","0","0",".","0","0">>>>) =>
    /\ Len(normalized) = 1
    /\ normalized[1].MoneyOut = 1000000
    /\ normalized[1].MoneyIn = 0
    /\ normalized[1].TransactionType = "Payment"


\* C22: in every normalizer a record whose date parses is dropped as noise
\* exactly when its Money In and Money Out are both zero, its description is
\* empty and it has no balance; with a description or a balance it is kept.
C22_NoiseDroppedExactly ==
  (/\ pc = "normalized"
   /\ Len(transactions) = 1
   /\ ~DateFails(bank, transactions[1])) =>
    LET r == transactions[1]
        noise ==
          CASE bank = "TSB" ->
                 /\ Strip(r.details) = <<>> /\ r.balance = <<>>
                 /\ PlainFloat(r.money_in).val = 0 /\ PlainFloat(r.money_out).val = 0
            [] bank = "TSB tables" ->
                 Strip(r.description) = <<>> /\ r.money_in = 0 /\ r.money_out = 0
            [] OTHER ->
                 /\ Strip(r.description) = <<>> /\ r.balance = <<>>
                 /\ MoneyFloat(r.money_in).val = 0 /\ MoneyFloat(r.money_out).val = 0
    IN (normalized = <<>>) <=> noise


\* C23: a failure to delete the temporary image is only logged: when the
\* deletion fails after the OCR has produced text, that text is still returned
\* for the page and scanned for transactions.
C23_TextKeptWhenRemoveFails ==
  /\ (pc = "resolved" /\ ocr = "remove_failed") => lines \in PageTexts(bank)
  /\ \A k \in 1..Len(pages) :
       pages[k].ocr = "remove_failed" =>
         /\ pages[k].text \in PageTexts(bank)
         /\ pages[k].added = Len(ExtractPage(bank, pages[k].text))


\* C24: when a document is aborted partway (an error raised on one of its pages
\* after earlier pages gave records), none of its partial records reaches the
\* list the ledger is built from.
C24_PartialRecordsDiscarded ==
  (pc = "extended" /\ Len(pages) < pageNo) =>
    normalized = <<>> /\ all_transactions = <<>>


\* C25: a line matching the filler patterns of the institution leaves the open
\* record and the result list unchanged, with or without an open record, and
\* without an open record any line that is not a date anchor leaves the scanner
\* without an open record and the result list unchanged.
C25_FillerAndStrayLines ==
  [][ScanStep =>
       /\ IsFiller(LineScanned, SkipsOf(bank)) =>
            current' = current /\ transactions' = transactions
       /\ (current = <<>> /\ ~DateRegexOf(bank, LineScanned)) =>
            current' = <<>> /\ transactions' = transactions]_vars

\* a filler line was scanned while a record was open, and the record is still
\* open with the description it had
C25_Witness ==
  /\ pc = "scan"
  /\ Len(lines) >= 2
  /\ DateRegexOf(bank, lines[Len(lines) - 1])
  /\ lines[Len(lines)] # <<>>
  /\ IsFiller(lines[Len(lines)], SkipsOf(bank))
  /\ current # <<>>
  /\ current[1].date = OpenedDate(bank, lines[Len(lines) - 1])


\* C26: the open record is local to one page: at the end of a page an open
\* record is appended unconditionally (Barclays strips its description first),
\* the next page starts without an open record, and the lines before the first
\* date anchor of a page change no record (the last record of the page before
\* included).
C26_OpenRecordLocalToPage ==
  [][/\ (pc = "scan" /\ pc' = "page_done") =>
          transactions' =
            IF current = <<>> THEN transactions
            ELSE IF bank = "Barclays"
            THEN Append(transactions, [current[1] EXCEPT !.description = Strip(@)])
            ELSE Append(transactions, current[1])
     /\ (pc = "page_done" /\ pc' = "scan") => current' = <<>>
     /\ (ScanStep /\ OpeningIn(bank, lines') = {}) =>
          current' = <<>> /\ transactions' = transactions]_vars

\* on the second page a line that is neither filler nor a date anchor was
\* scanned before any anchor, and the record of the first page is as it was
C26_Witness ==
  /\ pc = "scan"
  /\ pageNo = 2
  /\ Len(lines) = 1
  /\ ~IsFiller(lines[1], SkipsOf(bank))
  /\ ~DateRegexOf(bank, lines[1])
  /\ current = <<>>
  /\ Len(transactions) = 1
  /\ transactions[1].money_out # <<>>


\* C27: in the scanners of Virgin Money, Nationwide and Barclays a date-anchor
\* line gives the new record its date token only: the record is opened with
\* empty description, money_out, money_in and balance, and what else stands on
\* the anchor line is added to no record.
C27_AnchorGivesDateOnly ==
  [][(/\ ScanStep
      /\ bank \in {"Virgin Money", "Nationwide", "Barclays"}
      /\ ~IsFiller(LineScanned, SkipsOf(bank))
      /\ DateRegexOf(bank, LineScanned)) =>
       /\ current' = <<[date |-> Prefix(LineScanned, 6), description |-> <<>>,
                        money_out |-> <<>>, money_in |-> <<>>, balance |-> <<>>]>>
       /\ transactions' = IF current = <<>> THEN transactions
                          ELSE Append(transactions, current[1])]_vars

\* an anchor line that also carries text and an amount has opened a record
\* with the date alone
C27_Witness ==
  /\ pc = "scan"
  /\ bank \in {"Virgin Money", "Nationwide", "Barclays"}
  /\ lines # <<>>
  /\ DateRegexOf(bank, lines[Len(lines)])
  /\ ~IsFiller(lines[Len(lines)], SkipsOf(bank))
  /\ FindAmounts(lines[Len(lines)]) # <<>>
  /\ current # <<>>
  /\ current[1].description = <<>>
  /\ current[1].money_out = <<>>
  /\ current[1].money_in = <<>>


(***************************************************************************)
(* The table-based TSB extractor (extract_tsb_transactions.py 49-157).     *)
(***************************************************************************)

\* an OCR fallback decided per page: attempted when the tables of the page gave
\* nothing (the variant the document-wide test has to tell apart)
OcrPerPage(before, after) == after = before

\* "if not transactions:" after the tables of the page were read: before is the
\* list when the page began, after the list with the rows of the page
OcrIsAttempted(before, after) == after = <<>>

InitTables ==
  /\ bank = "TSB tables"
  /\ pc = "tables"
  /\ pageNo = 1
  /\ scanned = 0
  /\ lines = <<>>
  /\ pageBase = 0
  /\ current = <<>>
  /\ transactions = <<>>
  /\ pdf_name \in PdfNames("TSB")
  /\ normalized = <<>>
  /\ files = <<>>
  /\ docs = <<>>
  /\ all_transactions = <<>>
  /\ df = <<>>
  /\ temp_files = {}
  /\ ocr = "not_run"
  /\ pages = <<>>
  /\ module = "none"
  /\ retries = 0
  /\ responses = <<>>
  /\ result = "none"
  /\ location = 0
  /\ page_count = 0
  /\ all_data = 0
  /\ searched = <<>>

\* a page whose table rows are appended (those with a date of the form
\* "DD Mon YY") and for which the OCR fallback is not taken
TablesOnly ==
  /\ pc = "tables"
  /\ pageNo <= MaxPages
  /\ \E rows \in RawLists(bank, 1) :
       /\ ~OcrIsAttempted(transactions, transactions \o rows)
       /\ transactions' = transactions \o rows
       /\ pages' = Append(pages, [tables |-> Len(rows), ocr |-> "not_run",
                                  added |-> Len(rows)])
  /\ ocr' = "not_run"
  /\ pageNo' = pageNo + 1
  /\ UNCHANGED <<bank, pc, scanned, lines, pageBase, current, pdf_name, normalized,
                 mergeVars, temp_files, apiVars>>

\* a page after whose tables the OCR fallback is taken: extract_text_with_ocr
\* gives a text whose lines matching the transaction regex become records, or
\* gives "" (nothing read, or the OCR call raised and the image stays)
TablesThenOcr ==
  /\ pc = "tables"
  /\ pageNo <= MaxPages
  /\ \E rows \in RawLists(bank, 1) :
       /\ OcrIsAttempted(transactions, transactions \o rows)
       /\ \E how \in {"ok", "raised"} :
            \E recs \in (IF how = "ok" THEN RawLists(bank, 1) ELSE {<<>>}) :
              /\ ocr' = how
              /\ temp_files' = IF how = "raised" THEN temp_files \cup {<<"temp_page">>}
                               ELSE temp_files \ {<<"temp_page">>}
              /\ transactions' = transactions \o rows \o recs
              /\ pages' = Append(pages, [tables |-> Len(rows), ocr |-> how,
                                         added |-> Len(rows) + Len(recs)])
  /\ pageNo' = pageNo + 1
  /\ UNCHANGED <<bank, pc, scanned, lines, pageBase, current, pdf_name, normalized,
                 mergeVars, apiVars>>

\* the pages are exhausted (or pdfplumber raised and the except logged):
\* return transactions
ReturnTables ==
  /\ pc = "tables"
  /\ pc' = "returned"
  /\ UNCHANGED <<scanVars, mergeVars, ocrVars, apiVars>>

NextTables == TablesOnly \/ TablesThenOcr \/ ReturnTables

SpecTables == InitTables /\ [][NextTables]_vars

\* C28: in the table-based TSB extractor the OCR fallback is tested per page
\* against the list of the whole document: OCR is attempted on a page only if
\* neither its tables nor any earlier page gave a transaction, so once a page
\* has given a table row a later page whose tables give no valid row adds no
\* transaction.
C28_OcrOnlyWhileListEmpty ==
  \A k \in 1..Len(pages) :
    /\ pages[k].ocr # "not_run" =>
         pages[k].tables = 0 /\ \A j \in 1..(k - 1) : pages[j].added = 0
    /\ (pages[k].tables = 0 /\ \E j \in 1..(k - 1) : pages[j].tables > 0) =>
         pages[k].ocr = "not_run" /\ pages[k].added = 0

\* the first page gave a table row and the second page, whose tables gave
\* none, was left without OCR and added nothing
C28_Witness ==
  /\ pc = "returned"
  /\ bank = "TSB tables"
  /\ Len(pages) = 2
  /\ pages[1].tables = 1
  /\ pages[2].tables = 0
  /\ pages[2].ocr = "not_run"
  /\ Len(transactions) = 1


(***************************************************************************)
(* fetch_companies of the Companies House scripts: one top-level call and  *)
(* the calls it makes to itself.  responses is the log of the HTTP         *)
(* responses the top-level call has received, one per request.             *)
(***************************************************************************)
MAX_RETRIES == 5

\* the scripts whose fetch_companies is modelled
Modules == {"main", "main_year_2025", "fetch_overdue_companies"}

\* the Retry-After header of a 429 response: absent, a number of seconds, or
\* an HTTP-date
RetryAfter == {"absent", "120", "Wed, 21 Oct 2026 07:28:00 GMT"}

\* int(e.response.headers.get("Retry-After", 60)) returns a number
WaitTimeParses(header) == header \in {"absent", "120"}

\* the "except RequestException" handler calls fetch_companies again
RetriesRequestException(m) == m = "main_year_2025"

InitFetch ==
  /\ bank = "none"
  /\ pc = "fetch"
  /\ pageNo = 1
  /\ scanned = 0
  /\ lines = <<>>
  /\ pageBase = 0
  /\ current = <<>>
  /\ transactions = <<>>
  /\ pdf_name = <<>>
  /\ normalized = <<>>
  /\ files = <<>>
  /\ docs = <<>>
  /\ all_transactions = <<>>
  /\ df = <<>>
  /\ temp_files = {}
  /\ ocr = "not_run"
  /\ pages = <<>>
  /\ module \in Modules
  /\ retries = 0
  /\ responses = <<>>
  /\ result = "pending"
  /\ location = 0
  /\ page_count = 0
  /\ all_data = 0
  /\ searched = <<>>

\* requests.get succeeds: "return response.json()"
FetchOk ==
  /\ pc = "fetch"
  /\ result = "pending"
  /\ responses' = Append(responses, "200")
  /\ result' = "data"
  /\ UNCHANGED <<pc, scanVars, mergeVars, ocrVars, module, retries, location,
                 page_count, all_data, searched>>

\* raise_for_status raises HTTPError with status 429
FetchTooManyRequests ==
  /\ pc = "fetch"
  /\ result = "pending"
  /\ responses' = Append(responses, "429")
  /\ \E header \in RetryAfter :
       IF retries >= MAX_RETRIES
         THEN result' = "None" /\ retries' = retries
         ELSE IF WaitTimeParses(header)
                THEN result' = "pending" /\ retries' = retries + 1
                ELSE result' = "ValueError" /\ retries' = retries
  /\ UNCHANGED <<pc, scanVars, mergeVars, ocrVars, module, location,
                 page_count, all_data, searched>>

\* raise_for_status raises HTTPError with another status
FetchHttpError ==
  /\ pc = "fetch"
  /\ result = "pending"
  /\ responses' = Append(responses, "500")
  /\ result' = "None"
  /\ UNCHANGED <<pc, scanVars, mergeVars, ocrVars, module, retries, location,
                 page_count, all_data, searched>>

\* requests.get raises a RequestException that is no HTTPError
FetchRequestException ==
  /\ pc = "fetch"
  /\ result = "pending"
  /\ responses' = Append(responses, "RequestException")
  /\ IF RetriesRequestException(module) /\ retries < MAX_RETRIES
       THEN result' = "pending" /\ retries' = retries + 1
       ELSE result' = "None" /\ retries' = retries
  /\ UNCHANGED <<pc, scanVars, mergeVars, ocrVars, module, location,
                 page_count, all_data, searched>>

SpecFetch ==
  InitFetch /\ [][FetchOk \/ FetchTooManyRequests \/ FetchHttpError
                   \/ FetchRequestException]_vars

\* C29: every top-level call of fetch_companies makes at most MAX_RETRIES + 1
\* requests; a 429 response is followed by a retry with the counter one higher
\* until the counter is MAX_RETRIES, when the call returns None; a successful
\* response is returned at once; another HTTP error returns None with no retry.
C29_BoundedRetries ==
  (pc = "fetch" /\ responses # <<>>) =>
    /\ Len(responses) <= MAX_RETRIES + 1
    /\ result = "pending" => retries = Len(responses)
    /\ responses[Len(responses)] = "200" => result = "data"
    /\ responses[Len(responses)] = "500" => result = "None"
    /\ responses[Len(responses)] = "429" =>
         \/ result = "pending" /\ retries <= MAX_RETRIES
         \/ result = "None" /\ retries = MAX_RETRIES


(***************************************************************************)
(* main of main_year_2025.py: the searches per location, the pagination    *)
(* loop of each and the final save_to_csv.  all_data counts the companies  *)
(* collected; a fetch adds the companies its page has that pass the filter.*)
(***************************************************************************)
LOCATIONS ==
  << "Romford", "Dagenham", "Hornchurch", "Upminster", "South Ockendon",
     "Grays", "Tilbury", "Purfleet", "West Thurrock" >>

\* the safety limit of the pagination loop, 10000 in the source
MAX_PAGES == 2

\* "if all_data and location:" leaves the loop over the locations
LeavesLocations(data, loc) == data > 0 /\ loc <= Len(LOCATIONS)

InitMain ==
  /\ bank = "none"
  /\ pc = "search"
  /\ pageNo = 1
  /\ scanned = 0
  /\ lines = <<>>
  /\ pageBase = 0
  /\ current = <<>>
  /\ transactions = <<>>
  /\ pdf_name = <<>>
  /\ normalized = <<>>
  /\ files = <<>>
  /\ docs = <<>>
  /\ all_transactions = <<>>
  /\ df = <<>>
  /\ temp_files = {}
  /\ ocr = "not_run"
  /\ pages = <<>>
  /\ module = "main_year_2025"
  /\ retries = 0
  /\ responses = <<>>
  /\ result = "none"
  /\ location = 1
  /\ page_count = 0
  /\ all_data \in {0, 1}
  /\ searched = <<[location |-> LOCATIONS[1], fetches |-> 0]>>

\* an iteration of "while page_count < MAX_PAGES" that reaches its end and
\* goes round again
FetchPage ==
  /\ pc = "search"
  /\ page_count < MAX_PAGES
  /\ \E filtered \in {0, 1} : all_data' = all_data + filtered
  /\ page_count' = page_count + 1
  /\ searched' = [searched EXCEPT ![Len(searched)].fetches = @ + 1]
  /\ UNCHANGED <<pc, scanVars, mergeVars, ocrVars, module, retries, responses,
                 result, location>>

\* the pagination loop of a location ends: by a break of an iteration (with
\* or without companies added) or because page_count is MAX_PAGES; then
\* main leaves the loop over the locations and saves, or starts the next
EndSearch ==
  /\ pc = "search"
  /\ \E fetched \in BOOLEAN, filtered \in {0, 1} :
       /\ fetched <=> page_count < MAX_PAGES
       /\ ~fetched => filtered = 0
       /\ all_data' = all_data + filtered
       /\ IF LeavesLocations(all_data', location)
             \/ location = Len(LOCATIONS) + 1
            THEN /\ pc' = "saved"
                 /\ location' = location
                 /\ page_count' = page_count
                 /\ searched' =
                      [searched EXCEPT ![Len(searched)].fetches =
                                          IF fetched THEN @ + 1 ELSE @]
            ELSE /\ pc' = "search"
                 /\ location' = location + 1
                 /\ page_count' = 0
                 /\ searched' =
                      Append([searched EXCEPT ![Len(searched)].fetches =
                                                 IF fetched THEN @ + 1 ELSE @],
                             [location |-> (LOCATIONS \o <<"None">>)[location + 1],
                              fetches |-> 0])
  /\ UNCHANGED <<scanVars, mergeVars, ocrVars, module, retries, responses,
                 result>>

SpecMain == InitMain /\ [][FetchPage \/ EndSearch]_vars

\* C30: when main saves, every location of LOCATIONS has been searched, in
\* list order, each with at most MAX_PAGES fetches, and only the UK-wide
\* search (location None) may have been left out, when data was found.
C30_EveryLocationSearched ==
  pc = "saved" =>
    /\ Len(searched) >= Len(LOCATIONS)
    /\ \A i \in 1..Len(LOCATIONS) : searched[i].location = LOCATIONS[i]
    /\ \A i \in 1..Len(searched) : searched[i].fetches <= MAX_PAGES
    /\ Len(searched) = Len(LOCATIONS) => all_data > 0

====
